---- MODULE Spec2Model ----
(***************************************************************************)
(* Shapps MCP server: the project / version / file content model and the   *)
(* tool handlers of packages/mcp-server/src/mcp.ts, over the three tables   *)
(* projects, project_versions and project_files.                            *)
(*                                                                          *)
(* Every supabase call of a handler is one step.  A call either succeeds    *)
(* or returns an error ({data: null, error}); supabase-js does not throw,   *)
(* so a handler that does not look at `error` simply goes on.               *)
(***************************************************************************)
EXTENDS Integers, FiniteSets, Sequences, Bags, TLC

\* ---------------------------------------------------------------- bounds
MaxProjects == 2     \* project rows ever inserted
MaxVersions == 3     \* project_versions rows ever inserted
MaxRows == 2         \* project_files rows the store holds at one time
MaxStates == 2       \* state tokens /authorize hands out

\* ---------------------------------------------------------------- values
NULL == 0
Undefined == "undefined"

ProjectIds == 1..MaxProjects
VersionIds == 1..MaxVersions
Callers == {"c1", "c2"}
Slugs == {"my-bakery", "shop"}
Paths == {"index.html", "style.css"}
Contents == {"<h1>Hi</h1>", "<h1>Bye</h1>"}
Messages == {Undefined}
StateTokens == 1..MaxStates
Codes == {"g1", "g2"}

VARIABLES projects, project_versions, project_files, nextProjectId, nextVersionId, call,
          retry,   \* history: the rollback that last returned "Error copying files", until the next call begins
          OAUTH_KV,    \* env.OAUTH_KV: the stored authorization request under each key oauth_state:<state>
          nextState,   \* the state tokens crypto.randomUUID() has produced so far are 1 .. nextState - 1
          usedCodes,   \* the authorization codes Google has exchanged for tokens (a code is good once)
          completed    \* history: how often completeAuthorization was called for each state token

auth == <<OAUTH_KV, nextState, usedCodes, completed>>
vars == <<projects, project_versions, project_files, nextProjectId, nextVersionId, call, retry, auth>>
tables == <<projects, project_versions, project_files>>

\* The three tables as one value (what a caller could observe of the store).
Db == [projects |-> projects, project_versions |-> project_versions, project_files |-> project_files]

\* ---------------------------------------------------------------- guessContentType
\* Strings are atoms here, so filePath.split(".") is tabulated for the paths in use: the pieces
\* between the dots, the whole path when it has no dot, an empty piece next to a leading or trailing dot.
Split(filePath) ==
  CASE filePath = "index.html" -> <<"index", "html">>
    [] filePath = "style.css" -> <<"style", "css">>
    [] filePath = "css/style.css" -> <<"css/style", "css">>
    [] filePath = "photo.JPG" -> <<"photo", "JPG">>
    [] filePath = "Index.Html" -> <<"Index", "Html">>
    [] filePath = "archive.tar.gz" -> <<"archive", "tar", "gz">>
    [] filePath = "app.min.js" -> <<"app", "min", "js">>
    [] filePath = "v1.2/notes" -> <<"v1", "2/notes">>
    [] filePath = "notes." -> <<"notes", "">>
    [] filePath = ".gitignore" -> <<"", "gitignore">>
    [] filePath = "README" -> <<"README">>
    [] filePath = "html" -> <<"html">>
    [] filePath = "JSON" -> <<"JSON">>
    [] filePath = "docs/md" -> <<"docs/md">>
    [] filePath = "app.constructor" -> <<"app", "constructor">>

\* String.prototype.toLowerCase on the pieces above
ToLowerCase(s) ==
  CASE s = "JPG" -> "jpg"
    [] s = "Html" -> "html"
    [] s = "Index" -> "index"
    [] s = "README" -> "readme"
    [] s = "JSON" -> "json"
    [] OTHER -> s

\* filePath.split(".").pop()?.toLowerCase(): the last piece, which is the whole path when it has no dot
Ext(filePath) == LET pieces == Split(filePath) IN ToLowerCase(pieces[Len(pieces)])

\* what `types[ext]` yields for "constructor", a key the literal does not have but Object.prototype
\* does: the inherited function, which is not undefined, so that ?? "text/plain" does not replace it
ObjectConstructor == "function Object() { [native code] }"

guessContentType(filePath) ==
  LET ext == Ext(filePath) IN
  CASE ext = "html" -> "text/html"
    [] ext = "css" -> "text/css"
    [] ext = "js" -> "application/javascript"
    [] ext = "ts" -> "application/typescript"
    [] ext = "json" -> "application/json"
    [] ext = "svg" -> "image/svg+xml"
    [] ext = "png" -> "image/png"
    [] ext \in {"jpg", "jpeg"} -> "image/jpeg"
    [] ext = "gif" -> "image/gif"
    [] ext = "md" -> "text/markdown"
    [] ext = "txt" -> "text/plain"
    [] ext = "constructor" -> ObjectConstructor
    [] OTHER -> "text/plain"

\* ---------------------------------------------------------------- the store
\* A project_files row without its version_id: what publish and rollback select and copy.
Payload(row) == [file_path |-> row.file_path, content |-> row.content, content_type |-> row.content_type]

FileRow(version_id, f) ==
  [version_id |-> version_id, file_path |-> f.file_path, content |-> f.content, content_type |-> f.content_type]

\* .from("project_files").select(...).eq("version_id", v): a bag of payloads
SelectFiles(F, version_id) ==
  LET rows == {r \in DOMAIN F : r.version_id = version_id}
  IN [f \in {Payload(r) : r \in rows} |-> F[FileRow(version_id, f)]]

\* .from("project_files").insert(rows): every row gets the given version_id
InsertFiles(F, version_id, fs) ==
  F (+) [r \in {FileRow(version_id, f) : f \in DOMAIN fs} |-> fs[Payload(r)]]

\* .delete().eq("version_id", v).eq("file_path", p)
DeleteFileAt(F, version_id, file_path) ==
  [r \in {x \in DOMAIN F : ~(x.version_id = version_id /\ x.file_path = file_path)} |-> F[r]]

\* .delete().eq("version_id", v).in("file_path", ps)
DeleteFilesIn(F, version_id, file_paths) ==
  [r \in {x \in DOMAIN F : ~(x.version_id = version_id /\ x.file_path \in file_paths)} |-> F[r]]

\* a delete whose version filter was left out: every row goes
DeleteFilesEverywhere(F, version_ids) ==
  EmptyBag

\* .delete().eq("version_id", v)  /  .delete().in("version_id", vs)
DeleteFilesOfVersions(F, version_ids) ==
  [r \in {x \in DOMAIN F : x.version_id \notin version_ids} |-> F[r]]

\* a count that reports the paths asked for instead of the rows removed
CountPathsGiven(F, version_id, file_paths) ==
  Cardinality(file_paths)

\* number of rows .delete({count: "exact"}) reports
CountFilesIn(F, version_id, file_paths) ==
  BagCardinality([r \in {x \in DOMAIN F : x.version_id = version_id /\ x.file_path \in file_paths} |-> F[r]])

\* project_files.version_id references project_versions(id); the store holds MaxRows rows
CanInsertFiles(F, V, version_id, n) ==
  version_id \in DOMAIN V /\ BagCardinality(F) + n <= MaxRows

\* projects.slug is unique
SlugFree(P, slug) == \A p \in DOMAIN P : P[p].slug # slug

VersionsOfProject(V, project_id) == {v \in DOMAIN V : V[v].project_id = project_id}

\* ---------------------------------------------------------------- handler bookkeeping
Idle == [op |-> "none", pc |-> "idle"]

CanBegin(c) == call[c].pc = "idle"

NoRetry == [set |-> FALSE]

\* the handler reaches a return statement: `result` names its text, `payload` the values the text carries
Return(c, rec, result, payload) ==
  call' = [call EXCEPT ![c] =
             [op |-> rec.op, pc |-> "done", args |-> rec.args, result |-> result, payload |-> payload]
             @@ (IF rec.op = "rollback" THEN [failed |-> rec.failed, expect |-> rec.expect] ELSE << >>)]

Goto(c, rec, pc) == call' = [call EXCEPT ![c] = [rec EXCEPT !.pc = pc]]

At(c, op, pc) == call[c].op = op /\ call[c].pc = pc

\* no authorization under way
NoAuth ==
  /\ OAUTH_KV = << >>
  /\ nextState = 1
  /\ usedCodes = {}
  /\ completed = [s \in StateTokens |-> 0]

Init ==
  /\ projects = << >>
  /\ project_versions = << >>
  /\ project_files = EmptyBag
  /\ nextProjectId = 1
  /\ nextVersionId = 1
  /\ call = [c \in Callers |-> Idle]
  /\ retry = NoRetry
  /\ NoAuth

\* ---------------------------------------------------------------- create_project
\* the instants a row can carry in updated_at: the default now() of its insert, and a later clock reading
CreatedAt == "t0"

Now == "t1"

NewProject(slug) ==
  [slug |-> slug, status |-> "draft", active_version_id |-> NULL, draft_version_id |-> NULL,
   is_public |-> FALSE, updated_at |-> CreatedAt]

NewVersion(project_id, version_number, message) ==
  [project_id |-> project_id, version_number |-> version_number, message |-> message, is_draft |-> TRUE]

CreateProjectInsert(c) ==
  /\ CanBegin(c)
  /\ retry' = NoRetry
  /\ nextProjectId <= MaxProjects
  /\ nextVersionId <= MaxVersions
  /\ \E slug \in Slugs, ok \in BOOLEAN :
       LET rec == [op |-> "create_project", pc |-> "insert", args |-> [slug |-> slug],
                   project_id |-> nextProjectId, version_id |-> NULL, pre |-> Db]
       IN IF ok /\ SlugFree(projects, slug)
          THEN /\ projects' = (nextProjectId :> NewProject(slug)) @@ projects
               /\ nextProjectId' = nextProjectId + 1
               /\ Goto(c, rec, "insertVersion")
          ELSE /\ UNCHANGED <<projects, nextProjectId>>
               /\ Return(c, rec, "Error creating project", NULL)
  /\ UNCHANGED <<project_versions, project_files, nextVersionId>>
  /\ UNCHANGED auth

\* a create_project that takes the Project row back when the Version insert fails
CreateProjectRollsBack(c) ==
  /\ At(c, "create_project", "insertVersion")
  /\ UNCHANGED retry
  /\ \E ok \in BOOLEAN :
       IF ok /\ call[c].project_id \in DOMAIN projects /\ nextVersionId <= MaxVersions
       THEN /\ project_versions' = (nextVersionId :> NewVersion(call[c].project_id, 1, "Initial version")) @@ project_versions
            /\ nextVersionId' = nextVersionId + 1
            /\ Goto(c, [call[c] EXCEPT !.version_id = nextVersionId], "link")
            /\ UNCHANGED projects
       ELSE /\ UNCHANGED <<project_versions, nextVersionId>>
            /\ projects' = [p \in DOMAIN projects \ {call[c].project_id} |-> projects[p]]
            /\ Return(c, call[c], "Project created but failed to create initial version", NULL)
  /\ UNCHANGED <<project_files, nextProjectId>>
  /\ UNCHANGED auth

CreateProjectInsertVersion(c) ==
  /\ At(c, "create_project", "insertVersion")
  /\ UNCHANGED retry
  /\ \E ok \in BOOLEAN :
       IF ok /\ call[c].project_id \in DOMAIN projects /\ nextVersionId <= MaxVersions
       THEN /\ project_versions' = (nextVersionId :> NewVersion(call[c].project_id, 1, "Initial version")) @@ project_versions
            /\ nextVersionId' = nextVersionId + 1
            /\ Goto(c, [call[c] EXCEPT !.version_id = nextVersionId], "link")
       ELSE /\ UNCHANGED <<project_versions, nextVersionId>>
            /\ Return(c, call[c], "Project created but failed to create initial version", NULL)
  /\ UNCHANGED <<projects, project_files, nextProjectId>>
  /\ UNCHANGED auth

\* .from("projects").update(fields).eq("id", project_id): no row, no change
UpdateProject(P, project_id, fields) ==
  IF project_id \in DOMAIN P THEN [P EXCEPT ![project_id] = fields @@ @] ELSE P

CreateProjectLink(c) ==
  /\ At(c, "create_project", "link")
  /\ UNCHANGED retry
  /\ \E ok \in BOOLEAN :
       /\ projects' = IF ok THEN UpdateProject(projects, call[c].project_id, [draft_version_id |-> call[c].version_id])
                      ELSE projects
       /\ Return(c, call[c], "Project created successfully", NULL)
  /\ UNCHANGED <<project_versions, project_files, nextProjectId, nextVersionId>>
  /\ UNCHANGED auth

\* ---------------------------------------------------------------- write_files
ContentTypes == {Undefined}

\* index.html with either content, style.css with one
FileInputs ==
  {f \in [file_path : Paths, content : Contents, content_type : ContentTypes] :
     f.file_path = "style.css" => f.content = "<h1>Hi</h1>"}

FirstFile == [file_path |-> "index.html", content |-> "<h1>Hi</h1>", content_type |-> Undefined]

\* the `files` argument: one file, or index.html followed by a second file
Batches == {<<f>> : f \in FileInputs} \cup {<<FirstFile, g>> : g \in FileInputs}

\* .from("projects").select(...).eq("id", project_id).single(): an error when there is no such row
ProjectFound(ok, project_id) == ok /\ project_id \in DOMAIN projects

\* a write_files that falls back to the active version when there is no draft
WriteFilesIntoEffectiveVersion(c) ==
  /\ CanBegin(c)
  /\ retry' = NoRetry
  /\ \E project_id \in ProjectIds, files \in Batches, ok \in BOOLEAN :
       LET rec == [op |-> "write_files", pc |-> "begin", args |-> [project_id |-> project_id, files |-> files],
                   files |-> files, draft_version_id |-> NULL, results |-> << >>, pre |-> Db]
           versionId == IF projects[project_id].draft_version_id # NULL
                        THEN projects[project_id].draft_version_id ELSE projects[project_id].active_version_id
       IN IF ~ProjectFound(ok, project_id)
          THEN Return(c, rec, "Error", NULL)
          ELSE IF versionId = NULL
          THEN Return(c, rec, "No draft version found", NULL)
          ELSE Goto(c, [rec EXCEPT !.draft_version_id = versionId], "delete")
  /\ UNCHANGED <<tables, nextProjectId, nextVersionId>>
  /\ UNCHANGED auth

WriteFilesBegin(c) ==
  /\ CanBegin(c)
  /\ retry' = NoRetry
  /\ \E project_id \in ProjectIds, files \in Batches, ok \in BOOLEAN :
       LET rec == [op |-> "write_files", pc |-> "begin", args |-> [project_id |-> project_id, files |-> files],
                   files |-> files, draft_version_id |-> NULL, results |-> << >>, pre |-> Db]
       IN IF ~ProjectFound(ok, project_id)
          THEN Return(c, rec, "Error", NULL)
          ELSE IF projects[project_id].draft_version_id = NULL
          THEN Return(c, rec, "No draft version found", NULL)
          ELSE Goto(c, [rec EXCEPT !.draft_version_id = projects[project_id].draft_version_id], "delete")
  /\ UNCHANGED <<tables, nextProjectId, nextVersionId>>
  /\ UNCHANGED auth

WriteFilesDelete(c) ==
  /\ At(c, "write_files", "delete")
  /\ UNCHANGED retry
  /\ \E ok \in BOOLEAN :
       LET file == Head(call[c].files) IN
       /\ project_files' = IF ok THEN DeleteFileAt(project_files, call[c].draft_version_id, file.file_path)
                           ELSE project_files
       /\ Goto(c, call[c], "insert")
  /\ UNCHANGED <<projects, project_versions, nextProjectId, nextVersionId>>
  /\ UNCHANGED auth

WrittenFile(file) ==
  [file_path |-> file.file_path, content |-> file.content,
   content_type |-> IF file.content_type # Undefined THEN file.content_type ELSE guessContentType(file.file_path)]

\* a write_files that gives up at the first insert that fails
WriteFilesStopsAtFailure(c) ==
  /\ At(c, "write_files", "insert")
  /\ UNCHANGED retry
  /\ \E ok \in BOOLEAN :
       LET file == Head(call[c].files)
           rest == Tail(call[c].files)
           done == ok /\ CanInsertFiles(project_files, project_versions, call[c].draft_version_id, 1)
           rec == [call[c] EXCEPT !.files = rest,
                                  !.results = Append(@, [file_path |-> file.file_path, ok |-> done])]
       IN /\ project_files' = IF done
                              THEN InsertFiles(project_files, call[c].draft_version_id, SetToBag({WrittenFile(file)}))
                              ELSE project_files
          /\ IF rest = << >> \/ ~done THEN Return(c, rec, "Files written", rec.results) ELSE Goto(c, rec, "delete")
  /\ UNCHANGED <<projects, project_versions, nextProjectId, nextVersionId>>
  /\ UNCHANGED auth

WriteFilesInsert(c) ==
  /\ At(c, "write_files", "insert")
  /\ UNCHANGED retry
  /\ \E ok \in BOOLEAN :
       LET file == Head(call[c].files)
           rest == Tail(call[c].files)
           done == ok /\ CanInsertFiles(project_files, project_versions, call[c].draft_version_id, 1)
           rec == [call[c] EXCEPT !.files = rest,
                                  !.results = Append(@, [file_path |-> file.file_path, ok |-> done])]
       IN /\ project_files' = IF done
                              THEN InsertFiles(project_files, call[c].draft_version_id, SetToBag({WrittenFile(file)}))
                              ELSE project_files
          /\ IF rest = << >> THEN Return(c, rec, "Files written", rec.results) ELSE Goto(c, rec, "delete")
  /\ UNCHANGED <<projects, project_versions, nextProjectId, nextVersionId>>
  /\ UNCHANGED auth

\* ---------------------------------------------------------------- delete_files
DeleteFilesBegin(c) ==
  /\ CanBegin(c)
  /\ retry' = NoRetry
  /\ \E project_id \in ProjectIds, file_paths \in SUBSET Paths, ok \in BOOLEAN :
       LET rec == [op |-> "delete_files", pc |-> "begin", args |-> [project_id |-> project_id, file_paths |-> file_paths],
                   draft_version_id |-> NULL, pre |-> Db]
       IN IF ~ProjectFound(ok, project_id)
          THEN Return(c, rec, "Error", NULL)
          ELSE IF projects[project_id].draft_version_id = NULL
          THEN Return(c, rec, "No draft version found", NULL)
          ELSE Goto(c, [rec EXCEPT !.draft_version_id = projects[project_id].draft_version_id], "delete")
  /\ UNCHANGED <<tables, nextProjectId, nextVersionId>>
  /\ UNCHANGED auth

DeleteFilesDelete(c) ==
  /\ At(c, "delete_files", "delete")
  /\ UNCHANGED retry
  /\ \E ok \in BOOLEAN :
       IF ok
       THEN /\ project_files' = DeleteFilesIn(project_files, call[c].draft_version_id, call[c].args.file_paths)
            /\ Return(c, call[c], "Deleted", CountFilesIn(project_files, call[c].draft_version_id, call[c].args.file_paths))
       ELSE /\ UNCHANGED project_files
            /\ Return(c, call[c], "Error deleting files", NULL)
  /\ UNCHANGED <<projects, project_versions, nextProjectId, nextVersionId>>
  /\ UNCHANGED auth

\* ---------------------------------------------------------------- publish
\* an update that writes is_draft: !is_draft, whatever it was asked to write
UpdateVersionFlipsDraft(V, version_id, fields) ==
  IF version_id \in DOMAIN V
  THEN [V EXCEPT ![version_id] = [is_draft |-> ~V[version_id].is_draft] @@ fields @@ @]
  ELSE V

\* .from("project_versions").update(fields).eq("id", version_id): no row, no change
UpdateVersion(V, version_id, fields) ==
  IF version_id \in DOMAIN V THEN [V EXCEPT ![version_id] = fields @@ @] ELSE V

PublishBegin(c) ==
  /\ CanBegin(c)
  /\ retry' = NoRetry
  /\ nextVersionId <= MaxVersions
  /\ \E project_id \in ProjectIds, message \in Messages, ok \in BOOLEAN :
       LET rec == [op |-> "publish", pc |-> "begin", args |-> [project_id |-> project_id, message |-> message],
                   draft_version_id |-> NULL, slug |-> "", publishedVersion |-> NULL, newDraft |-> NULL,
                   files |-> EmptyBag, pre |-> Db]
       IN IF ~ProjectFound(ok, project_id)
          THEN Return(c, rec, "Error", NULL)
          ELSE IF projects[project_id].draft_version_id = NULL
          THEN Return(c, rec, "No draft version to publish", NULL)
          ELSE Goto(c, [rec EXCEPT !.draft_version_id = projects[project_id].draft_version_id,
                                   !.slug = projects[project_id].slug], "mark")
  /\ UNCHANGED <<tables, nextProjectId, nextVersionId>>
  /\ UNCHANGED auth

\* Mark the draft as published (no longer a draft)
PublishMark(c) ==
  /\ At(c, "publish", "mark")
  /\ UNCHANGED retry
  /\ \E ok \in BOOLEAN :
       IF ok
       THEN /\ project_versions' =
                 UpdateVersion(project_versions, call[c].draft_version_id,
                               [is_draft |-> FALSE,
                                message |-> IF call[c].args.message # Undefined THEN call[c].args.message ELSE "Published"])
            /\ Goto(c, call[c], "readNumber")
       ELSE /\ UNCHANGED project_versions
            /\ Return(c, call[c], "Error publishing", NULL)
  /\ UNCHANGED <<projects, project_files, nextProjectId, nextVersionId>>
  /\ UNCHANGED auth

\* Get the version number of the just-published version; data is null when the select fails
PublishReadNumber(c) ==
  /\ At(c, "publish", "readNumber")
  /\ UNCHANGED retry
  /\ \E ok \in BOOLEAN :
       Goto(c, [call[c] EXCEPT !.publishedVersion =
                  IF ok /\ call[c].draft_version_id \in DOMAIN project_versions
                  THEN project_versions[call[c].draft_version_id].version_number ELSE NULL],
            "insertDraft")
  /\ UNCHANGED <<tables, nextProjectId, nextVersionId>>
  /\ UNCHANGED auth

\* publishedVersion?.version_number ?? 1
OrOne(version_number) == IF version_number = NULL THEN 1 ELSE version_number

\* Create a new draft version
PublishInsertDraft(c) ==
  /\ At(c, "publish", "insertDraft")
  /\ UNCHANGED retry
  /\ \E ok \in BOOLEAN :
       LET nextVersionNumber == OrOne(call[c].publishedVersion) + 1 IN
       IF ok /\ call[c].args.project_id \in DOMAIN projects /\ nextVersionId <= MaxVersions
       THEN /\ project_versions' = (nextVersionId :> NewVersion(call[c].args.project_id, nextVersionNumber, "Draft")) @@ project_versions
            /\ nextVersionId' = nextVersionId + 1
            /\ Goto(c, [call[c] EXCEPT !.newDraft = nextVersionId], "readFiles")
       ELSE /\ UNCHANGED <<project_versions, nextVersionId>>
            /\ Goto(c, call[c], "fallback")
  /\ UNCHANGED <<projects, project_files, nextProjectId>>
  /\ UNCHANGED auth

\* Still update the project even if new draft fails
PublishFallback(c) ==
  /\ At(c, "publish", "fallback")
  /\ UNCHANGED retry
  /\ \E ok \in BOOLEAN :
       /\ projects' = IF ok
                      THEN UpdateProject(projects, call[c].args.project_id,
                                         [active_version_id |-> call[c].draft_version_id, draft_version_id |-> NULL,
                                          status |-> "published"])
                      ELSE projects
       /\ Return(c, call[c], "Published! But failed to create new draft", NULL)
  /\ UNCHANGED <<project_versions, project_files, nextProjectId, nextVersionId>>
  /\ UNCHANGED auth

\* Copy files from published version into the new draft: the select (null data reads as no files)
PublishReadFiles(c) ==
  /\ At(c, "publish", "readFiles")
  /\ UNCHANGED retry
  /\ \E ok \in BOOLEAN :
       LET files == IF ok THEN SelectFiles(project_files, call[c].draft_version_id) ELSE EmptyBag
       IN Goto(c, [call[c] EXCEPT !.files = files], IF files # EmptyBag THEN "copy" ELSE "pointers")
  /\ UNCHANGED <<tables, nextProjectId, nextVersionId>>
  /\ UNCHANGED auth

\* ... and the insert, whose error is not looked at
PublishCopy(c) ==
  /\ At(c, "publish", "copy")
  /\ UNCHANGED retry
  /\ \E ok \in BOOLEAN :
       /\ project_files' =
            IF ok /\ CanInsertFiles(project_files, project_versions, call[c].newDraft, BagCardinality(call[c].files))
            THEN InsertFiles(project_files, call[c].newDraft, call[c].files)
            ELSE project_files
       /\ Goto(c, call[c], "pointers")
  /\ UNCHANGED <<projects, project_versions, nextProjectId, nextVersionId>>
  /\ UNCHANGED auth

\* Update the project pointers
PublishPointers(c) ==
  /\ At(c, "publish", "pointers")
  /\ UNCHANGED retry
  /\ \E ok \in BOOLEAN :
       /\ projects' = IF ok
                      THEN UpdateProject(projects, call[c].args.project_id,
                                         [active_version_id |-> call[c].draft_version_id,
                                          draft_version_id |-> call[c].newDraft, status |-> "published"])
                      ELSE projects
       /\ Return(c, call[c], "Published successfully",
                 [live_url |-> call[c].slug, version |-> OrOne(call[c].publishedVersion),
                  new_draft_version_id |-> call[c].newDraft])
  /\ UNCHANGED <<project_versions, project_files, nextProjectId, nextVersionId>>
  /\ UNCHANGED auth

\* ---------------------------------------------------------------- rollback
\* `failed` (history) collects the store calls of this run that returned an error; `expect` (history)
\* is set when this run repeats the rollback that `retry` remembers
RollbackBegin(c) ==
  /\ CanBegin(c)
  /\ retry' = NoRetry
  /\ \E project_id \in ProjectIds, version_id \in VersionIds, ok \in BOOLEAN :
       LET args == [project_id |-> project_id, version_id |-> version_id]
           rec == [op |-> "rollback", pc |-> "begin", args |-> args,
                   draft_version_id |-> NULL, version_number |-> NULL, sourceFiles |-> EmptyBag,
                   failed |-> IF ok THEN {} ELSE {"begin"},
                   expect |-> IF retry.set /\ retry.args = args THEN retry ELSE NoRetry, pre |-> Db]
       IN IF ~ProjectFound(ok, project_id)
          THEN Return(c, rec, "Error", NULL)
          ELSE IF projects[project_id].draft_version_id = NULL
          THEN Return(c, rec, "No draft version to roll back into", NULL)
          ELSE Goto(c, [rec EXCEPT !.draft_version_id = projects[project_id].draft_version_id], "verify")
  /\ UNCHANGED <<tables, nextProjectId, nextVersionId>>
  /\ UNCHANGED auth

\* the lookup without .eq("project_id", project_id): any existing version passes
VersionOfAnyProject(V, version_id, project_id) ==
  version_id \in DOMAIN V

\* .from("project_versions").select(...).eq("id", version_id).eq("project_id", project_id).single()
VersionOfProject(V, version_id, project_id) ==
  version_id \in DOMAIN V /\ V[version_id].project_id = project_id

Failed(rec, ok) == [rec EXCEPT !.failed = IF ok THEN @ ELSE @ \cup {rec.pc}]

\* Verify the target version belongs to this project
RollbackVerify(c) ==
  /\ At(c, "rollback", "verify")
  /\ UNCHANGED retry
  /\ \E ok \in BOOLEAN :
       IF ok /\ VersionOfProject(project_versions, call[c].args.version_id, call[c].args.project_id)
       THEN Goto(c, [call[c] EXCEPT !.version_number = project_versions[call[c].args.version_id].version_number], "readSource")
       ELSE Return(c, Failed(call[c], ok), "Version not found or doesn't belong to this project", NULL)
  /\ UNCHANGED <<tables, nextProjectId, nextVersionId>>
  /\ UNCHANGED auth

\* Get files from the target version (null data reads as no files)
RollbackReadSource(c) ==
  /\ At(c, "rollback", "readSource")
  /\ UNCHANGED retry
  /\ \E ok \in BOOLEAN :
       Goto(c, [Failed(call[c], ok) EXCEPT
                  !.sourceFiles = IF ok THEN SelectFiles(project_files, call[c].args.version_id) ELSE EmptyBag],
            "delete")
  /\ UNCHANGED <<tables, nextProjectId, nextVersionId>>
  /\ UNCHANGED auth

RolledBack(rec, files_copied) == [version_number |-> rec.version_number, files_copied |-> files_copied]

\* a rollback that leaves out the delete of the draft's files
RollbackKeepsDraftFiles(c) ==
  /\ At(c, "rollback", "delete")
  /\ UNCHANGED retry
  /\ \E ok \in BOOLEAN :
       IF call[c].sourceFiles # EmptyBag
       THEN Goto(c, Failed(call[c], ok), "insert")
       ELSE Return(c, Failed(call[c], ok), "Rolled back", RolledBack(call[c], 0))
  /\ UNCHANGED <<tables, nextProjectId, nextVersionId>>
  /\ UNCHANGED auth

\* Delete all current draft files; the error is not looked at
RollbackDelete(c) ==
  /\ At(c, "rollback", "delete")
  /\ UNCHANGED retry
  /\ \E ok \in BOOLEAN :
       /\ project_files' = IF ok THEN DeleteFilesOfVersions(project_files, {call[c].draft_version_id})
                           ELSE project_files
       /\ IF call[c].sourceFiles # EmptyBag
          THEN Goto(c, Failed(call[c], ok), "insert")
          ELSE Return(c, Failed(call[c], ok), "Rolled back", RolledBack(call[c], 0))
  /\ UNCHANGED <<projects, project_versions, nextProjectId, nextVersionId>>
  /\ UNCHANGED auth

\* what a rollback in which no store call fails makes of the files F
FailureFreeRollback(F, draft_version_id, version_id) ==
  LET kept == [r \in {x \in DOMAIN F : x.version_id # draft_version_id} |-> F[r]]
      source == {r \in DOMAIN F : r.version_id = version_id}
  IN kept (+) [r \in {[x EXCEPT !.version_id = draft_version_id] : x \in source} |->
                 F[[r EXCEPT !.version_id = version_id]]]

\* Copy files into the draft
RollbackInsert(c) ==
  /\ At(c, "rollback", "insert")
  /\ \E ok \in BOOLEAN :
       LET n == BagCardinality(call[c].sourceFiles) IN
       IF ok /\ CanInsertFiles(project_files, project_versions, call[c].draft_version_id, n)
       THEN /\ project_files' = InsertFiles(project_files, call[c].draft_version_id, call[c].sourceFiles)
            /\ Return(c, call[c], "Rolled back", RolledBack(call[c], n))
            /\ UNCHANGED retry
       ELSE /\ UNCHANGED project_files
            /\ Return(c, Failed(call[c], FALSE), "Error copying files", NULL)
            /\ retry' = [set |-> TRUE, args |-> call[c].args, draft_version_id |-> call[c].draft_version_id,
                         deleted |-> "delete" \notin call[c].failed,
                         files |-> FailureFreeRollback(call[c].pre.project_files, call[c].draft_version_id,
                                                       call[c].args.version_id)]
  /\ UNCHANGED <<projects, project_versions, nextProjectId, nextVersionId>>
  /\ UNCHANGED auth

\* ---------------------------------------------------------------- get_project
\* .from("project_files").select("file_path, content_type").eq("version_id", v)
FileList(F, version_id) ==
  BagOfAll(LAMBDA f : [file_path |-> f.file_path, content_type |-> f.content_type], SelectFiles(F, version_id))

\* a version choice that prefers the live version
ActiveVersionFirst(project) ==
  IF project.active_version_id # NULL THEN project.active_version_id ELSE project.draft_version_id

\* project.draft_version_id ?? project.active_version_id
EffectiveVersion(project) ==
  IF project.draft_version_id # NULL THEN project.draft_version_id ELSE project.active_version_id

GetProjectBegin(c) ==
  /\ CanBegin(c)
  /\ retry' = NoRetry
  /\ \E project_id \in ProjectIds, ok \in BOOLEAN :
       LET rec == [op |-> "get_project", pc |-> "begin", args |-> [project_id |-> project_id]]
       IN IF ~ProjectFound(ok, project_id)
          THEN Return(c, rec, "Error", NULL)
          ELSE IF EffectiveVersion(projects[project_id]) # NULL
          THEN Goto(c, rec @@ [project |-> projects[project_id]], "files")
          ELSE Return(c, rec, "Project", [project |-> projects[project_id], files |-> EmptyBag])
  /\ UNCHANGED <<tables, nextProjectId, nextVersionId>>
  /\ UNCHANGED auth

\* the file list of the effective version (null data reads as no files)
GetProjectFiles(c) ==
  /\ At(c, "get_project", "files")
  /\ UNCHANGED retry
  /\ \E ok \in BOOLEAN :
       LET files == IF ok THEN FileList(project_files, EffectiveVersion(call[c].project)) ELSE EmptyBag
       IN Return(c, call[c], "Project", [project |-> call[c].project, files |-> files])
  /\ UNCHANGED <<tables, nextProjectId, nextVersionId>>
  /\ UNCHANGED auth

\* ---------------------------------------------------------------- get_preview_url
\* a preview path under the prefix of the live site
PreviewUrlUnderApp(slug) == <<"app", slug>>

\* `/preview/${project.slug}` as its path segments
PreviewUrl(slug) == <<"preview", slug>>

GetPreviewUrl(c) ==
  /\ CanBegin(c)
  /\ retry' = NoRetry
  /\ \E project_id \in ProjectIds, ok \in BOOLEAN :
       LET rec == [op |-> "get_preview_url", pc |-> "begin", args |-> [project_id |-> project_id]]
       IN IF ~ProjectFound(ok, project_id)
          THEN Return(c, rec, "Error", NULL)
          ELSE IF projects[project_id].draft_version_id = NULL
          THEN Return(c, rec, "No draft version exists for this project", NULL)
          ELSE Return(c, rec, "Preview",
                      [preview_url |-> PreviewUrl(projects[project_id].slug), slug |-> projects[project_id].slug])
  /\ UNCHANGED <<tables, nextProjectId, nextVersionId>>
  /\ UNCHANGED auth

\* ---------------------------------------------------------------- list_projects
\* .order("created_at", {ascending: false}): ids are handed out in creation order
NewestProjectsFirst(P) ==
  {o \in [1..Cardinality(DOMAIN P) -> DOMAIN P] :
     \A i, j \in DOMAIN o : i < j => o[i] > o[j]}

ListProjects(c) ==
  /\ CanBegin(c)
  /\ retry' = NoRetry
  /\ \E ok \in BOOLEAN :
       LET rec == [op |-> "list_projects", pc |-> "begin", args |-> << >>]
       IN IF ~ok
          THEN Return(c, rec, "Error listing projects", NULL)
          ELSE IF DOMAIN projects = {}
          THEN Return(c, rec, "No projects found", NULL)
          ELSE \E o \in NewestProjectsFirst(projects) :
                 Return(c, rec, "Projects",
                        [i \in DOMAIN o |-> [id |-> o[i], slug |-> projects[o[i]].slug, status |-> projects[o[i]].status]])
  /\ UNCHANGED <<tables, nextProjectId, nextVersionId>>
  /\ UNCHANGED auth

\* ---------------------------------------------------------------- read_files
\* the optional `file_paths` argument: left out, or an array (here as the set of its paths)
PathsGiven ==
  {[given |-> FALSE, file_paths |-> {}]} \cup {[given |-> TRUE, file_paths |-> ps] : ps \in SUBSET Paths}

\* file_paths && file_paths.length > 0
FilterApplies(pg) == pg.given /\ pg.file_paths # {}

\* .select("file_path, content, content_type").eq("version_id", v)[.in("file_path", file_paths)]
ReadFiles(F, version_id, pg) ==
  LET all == SelectFiles(F, version_id)
  IN IF FilterApplies(pg)
     THEN [f \in {x \in DOMAIN all : x.file_path \in pg.file_paths} |-> all[f]]
     ELSE all

ReadFilesBegin(c) ==
  /\ CanBegin(c)
  /\ retry' = NoRetry
  /\ \E project_id \in ProjectIds, pg \in PathsGiven, ok \in BOOLEAN :
       LET rec == [op |-> "read_files", pc |-> "begin", args |-> [project_id |-> project_id, paths |-> pg],
                   versionId |-> NULL]
       IN IF ~ProjectFound(ok, project_id)
          THEN Return(c, rec, "Error", NULL)
          ELSE IF EffectiveVersion(projects[project_id]) = NULL
          THEN Return(c, rec, "No version found for this project", NULL)
          ELSE Goto(c, [rec EXCEPT !.versionId = EffectiveVersion(projects[project_id])], "files")
  /\ UNCHANGED <<tables, nextProjectId, nextVersionId>>
  /\ UNCHANGED auth

ReadFilesQuery(c) ==
  /\ At(c, "read_files", "files")
  /\ UNCHANGED retry
  /\ \E ok \in BOOLEAN :
       LET data == ReadFiles(project_files, call[c].versionId, call[c].args.paths)
       IN IF ~ok
          THEN Return(c, call[c], "Error reading files", NULL)
          ELSE IF data = EmptyBag
          THEN Return(c, call[c], "No files found", NULL)
          ELSE Return(c, call[c], "Files", data)
  /\ UNCHANGED <<tables, nextProjectId, nextVersionId>>
  /\ UNCHANGED auth

\* ---------------------------------------------------------------- list_versions
\* .order("version_number", {ascending: false}): rows with equal numbers come in either order
NewestFirst(V, ids) ==
  {o \in [1..Cardinality(ids) -> ids] :
     /\ \A i, j \in DOMAIN o : i # j => o[i] # o[j]
     /\ \A i, j \in DOMAIN o : i < j => V[o[i]].version_number >= V[o[j]].version_number}

\* is_active: v.id === project.active_version_id, is_current_draft: v.id === project.draft_version_id
Annotated(V, o, project) ==
  [i \in DOMAIN o |->
     [id |-> o[i], version_number |-> V[o[i]].version_number, is_draft |-> V[o[i]].is_draft,
      is_active |-> o[i] = project.active_version_id,
      is_current_draft |-> o[i] = project.draft_version_id]]

ListVersionsBegin(c) ==
  /\ CanBegin(c)
  /\ retry' = NoRetry
  /\ \E project_id \in ProjectIds, ok \in BOOLEAN :
       LET rec == [op |-> "list_versions", pc |-> "begin", args |-> [project_id |-> project_id]]
       IN IF ~ProjectFound(ok, project_id)
          THEN Return(c, rec, "Error", NULL)
          ELSE Goto(c, rec @@ [project |-> [active_version_id |-> projects[project_id].active_version_id,
                                            draft_version_id |-> projects[project_id].draft_version_id]],
                    "versions")
  /\ UNCHANGED <<tables, nextProjectId, nextVersionId>>
  /\ UNCHANGED auth

ListVersionsQuery(c) ==
  /\ At(c, "list_versions", "versions")
  /\ UNCHANGED retry
  /\ \E ok \in BOOLEAN :
       IF ~ok
       THEN Return(c, call[c], "Error", NULL)
       ELSE \E o \in NewestFirst(project_versions, VersionsOfProject(project_versions, call[c].args.project_id)) :
              Return(c, call[c], "Versions", Annotated(project_versions, o, call[c].project))
  /\ UNCHANGED <<tables, nextProjectId, nextVersionId>>
  /\ UNCHANGED auth

\* ---------------------------------------------------------------- file serving
\* the request paths /app/<slug>[/<file>] and /preview/<slug>[/<file>] as their segments
RequestPaths ==
  {<<prefix, slug>> : prefix \in {"app", "preview"}, slug \in Slugs}
    \cup {<<prefix, slug, file>> : prefix \in {"app", "preview"}, slug \in Slugs, file \in Paths}

\* fetch: the slug, the file path (index.html when the path names none) and the mode of a request
Route(path) ==
  [slug |-> path[2],
   filePath |-> IF Len(path) = 2 THEN "index.html" ELSE path[3],
   mode |-> IF path[1] = "app" THEN "active" ELSE "draft"]

\* mode === "active" ? project.active_version_id : project.draft_version_id
ServedVersion(project, mode) ==
  IF mode = "active" THEN project.active_version_id ELSE project.draft_version_id

\* .from("projects").select(...).eq("slug", slug).single()
ProjectsWithSlug(P, slug) == {p \in DOMAIN P : P[p].slug = slug}

ServeAppBegin(c) ==
  /\ CanBegin(c)
  /\ retry' = NoRetry
  /\ \E path \in RequestPaths, configured \in BOOLEAN, ok \in BOOLEAN :
       LET rec == [op |-> "serveApp", pc |-> "begin", args |-> Route(path), versionId |-> NULL]
           found == ProjectsWithSlug(projects, rec.args.slug)
       IN IF ~configured
          THEN Return(c, rec, "500 Server misconfiguration", NULL)
          ELSE IF ~ok \/ Cardinality(found) # 1
          THEN Return(c, rec, "404 Project not found", NULL)
          ELSE LET versionId == ServedVersion(projects[CHOOSE p \in found : TRUE], rec.args.mode)
               IN IF versionId = NULL
                  THEN Return(c, rec, IF rec.args.mode = "active"
                                      THEN "404 This app hasn't been published yet"
                                      ELSE "404 No draft version exists for this project", NULL)
                  ELSE Goto(c, [rec EXCEPT !.versionId = versionId], "file")
  /\ UNCHANGED <<tables, nextProjectId, nextVersionId>>
  /\ UNCHANGED auth

\* Fetch the requested file: .single() fails unless exactly one row matches
ServeAppFile(c) ==
  /\ At(c, "serveApp", "file")
  /\ UNCHANGED retry
  /\ \E ok \in BOOLEAN :
       LET rows == [r \in {x \in DOMAIN project_files :
                             x.version_id = call[c].versionId /\ x.file_path = call[c].args.filePath}
                      |-> project_files[r]]
       IN IF ~ok \/ BagCardinality(rows) # 1
          THEN Return(c, call[c], "404 File not found", NULL)
          ELSE LET file == CHOOSE r \in DOMAIN rows : TRUE
               IN Return(c, call[c], "200", [content |-> file.content, content_type |-> file.content_type])
  /\ UNCHANGED <<tables, nextProjectId, nextVersionId>>
  /\ UNCHANGED auth

\* ---------------------------------------------------------------- delete_project
\* a delete_project that does not look at `confirm`
DeleteProjectUnconfirmed(c) ==
  /\ CanBegin(c)
  /\ retry' = NoRetry
  /\ \E project_id \in ProjectIds, confirm \in BOOLEAN, ok \in BOOLEAN :
       LET rec == [op |-> "delete_project", pc |-> "begin", args |-> [project_id |-> project_id, confirm |-> confirm],
                   versions |-> {}, pre |-> Db]
       IN IF ok
          THEN /\ projects' = UpdateProject(projects, project_id, [active_version_id |-> NULL, draft_version_id |-> NULL])
               /\ Goto(c, rec, "readVersions")
          ELSE /\ UNCHANGED projects
               /\ Return(c, rec, "Error", NULL)
  /\ UNCHANGED <<project_versions, project_files, nextProjectId, nextVersionId>>
  /\ UNCHANGED auth

\* a delete_project that goes on when clearing the pointers failed
DeleteProjectIgnoresClearError(c) ==
  /\ CanBegin(c)
  /\ retry' = NoRetry
  /\ \E project_id \in ProjectIds, confirm \in BOOLEAN, ok \in BOOLEAN :
       LET rec == [op |-> "delete_project", pc |-> "begin", args |-> [project_id |-> project_id, confirm |-> confirm],
                   versions |-> {}, pre |-> Db]
       IN IF ~confirm
          THEN /\ UNCHANGED projects
               /\ Return(c, rec, "Deletion not confirmed", NULL)
          ELSE /\ projects' = IF ok
                              THEN UpdateProject(projects, project_id, [active_version_id |-> NULL, draft_version_id |-> NULL])
                              ELSE projects
               /\ Goto(c, rec, "readVersions")
  /\ UNCHANGED <<project_versions, project_files, nextProjectId, nextVersionId>>
  /\ UNCHANGED auth

\* Clear version pointers first
DeleteProjectBegin(c) ==
  /\ CanBegin(c)
  /\ retry' = NoRetry
  /\ \E project_id \in ProjectIds, confirm \in BOOLEAN, ok \in BOOLEAN :
       LET rec == [op |-> "delete_project", pc |-> "begin", args |-> [project_id |-> project_id, confirm |-> confirm],
                   versions |-> {}, pre |-> Db]
       IN IF ~confirm
          THEN /\ UNCHANGED projects
               /\ Return(c, rec, "Deletion not confirmed", NULL)
          ELSE IF ok
          THEN /\ projects' = UpdateProject(projects, project_id, [active_version_id |-> NULL, draft_version_id |-> NULL])
               /\ Goto(c, rec, "readVersions")
          ELSE /\ UNCHANGED projects
               /\ Return(c, rec, "Error", NULL)
  /\ UNCHANGED <<project_versions, project_files, nextProjectId, nextVersionId>>
  /\ UNCHANGED auth

\* Get all version IDs for this project (null data reads as no versions)
DeleteProjectReadVersions(c) ==
  /\ At(c, "delete_project", "readVersions")
  /\ UNCHANGED retry
  /\ \E ok \in BOOLEAN :
       LET versions == IF ok THEN VersionsOfProject(project_versions, call[c].args.project_id) ELSE {}
       IN Goto(c, [call[c] EXCEPT !.versions = versions], IF versions # {} THEN "deleteFiles" ELSE "deleteVersions")
  /\ UNCHANGED <<tables, nextProjectId, nextVersionId>>
  /\ UNCHANGED auth

\* Delete files for all versions; the error is not looked at
DeleteProjectDeleteFiles(c) ==
  /\ At(c, "delete_project", "deleteFiles")
  /\ UNCHANGED retry
  /\ \E ok \in BOOLEAN :
       /\ project_files' = IF ok THEN DeleteFilesOfVersions(project_files, call[c].versions) ELSE project_files
       /\ Goto(c, call[c], "deleteVersions")
  /\ UNCHANGED <<projects, project_versions, nextProjectId, nextVersionId>>
  /\ UNCHANGED auth

\* project_files.version_id references project_versions(id): a version that still has files cannot go
CanDeleteVersions(F, version_ids) == \A r \in DOMAIN F : r.version_id \notin version_ids

DeleteVersionsOfProject(V, project_id) ==
  [v \in DOMAIN V \ VersionsOfProject(V, project_id) |-> V[v]]

\* Delete versions; the error is not looked at
DeleteProjectDeleteVersions(c) ==
  /\ At(c, "delete_project", "deleteVersions")
  /\ UNCHANGED retry
  /\ \E ok \in BOOLEAN :
       /\ project_versions' =
            IF ok /\ CanDeleteVersions(project_files, VersionsOfProject(project_versions, call[c].args.project_id))
            THEN DeleteVersionsOfProject(project_versions, call[c].args.project_id)
            ELSE project_versions
       /\ Goto(c, call[c], "deleteProject")
  /\ UNCHANGED <<projects, project_files, nextProjectId, nextVersionId>>
  /\ UNCHANGED auth

\* a projects table that nothing references: the row goes whatever is left of its versions
CanDeleteProjectWithVersions(V, project_id) == TRUE

\* project_versions.project_id references projects(id): a project that still has versions cannot go
CanDeleteProject(V, project_id) == VersionsOfProject(V, project_id) = {}

DeleteProjectRow(P, project_id) == [p \in DOMAIN P \ {project_id} |-> P[p]]

\* Delete the project
DeleteProjectDelete(c) ==
  /\ At(c, "delete_project", "deleteProject")
  /\ UNCHANGED retry
  /\ \E ok \in BOOLEAN :
       IF ok /\ CanDeleteProject(project_versions, call[c].args.project_id)
       THEN /\ projects' = DeleteProjectRow(projects, call[c].args.project_id)
            /\ Return(c, call[c], "Project deleted permanently", NULL)
       ELSE /\ UNCHANGED projects
            /\ Return(c, call[c], "Error deleting project", NULL)
  /\ UNCHANGED <<project_versions, project_files, nextProjectId, nextVersionId>>
  /\ UNCHANGED auth

\* ---------------------------------------------------------------- update_settings
\* the `updates` record: one key for each setting the caller supplied (is_public stands for name,
\* description, is_public and show_source, which the handler treats alike)
SettingsGiven ==
  {<< >>} \cup {[slug |-> s] : s \in Slugs} \cup {[is_public |-> b] : b \in BOOLEAN}
    \cup {[slug |-> s, is_public |-> b] : s \in Slugs, b \in BOOLEAN}

\* projects.slug is unique: a row may keep its own slug
SlugFreeFor(P, project_id, updates) ==
  "slug" \in DOMAIN updates => \A p \in DOMAIN P \ {project_id} : P[p].slug # updates.slug

\* an update_settings that writes only what the caller supplied
UpdateSettingsKeepsUpdatedAt(c) ==
  /\ CanBegin(c)
  /\ retry' = NoRetry
  /\ \E project_id \in ProjectIds, given \in SettingsGiven, ok \in BOOLEAN :
       LET rec == [op |-> "update_settings", pc |-> "begin", args |-> [project_id |-> project_id, given |-> given]]
       IN IF DOMAIN given = {}
          THEN /\ UNCHANGED projects
               /\ Return(c, rec, "Nothing to update", NULL)
          ELSE IF ProjectFound(ok, project_id) /\ SlugFreeFor(projects, project_id, given)
          THEN /\ projects' = UpdateProject(projects, project_id, given)
               /\ Return(c, rec, "Settings updated", [slug |-> projects'[project_id].slug,
                                                      is_public |-> projects'[project_id].is_public])
          ELSE /\ UNCHANGED projects
               /\ Return(c, rec, "Error updating settings", NULL)
  /\ UNCHANGED <<project_versions, project_files, nextProjectId, nextVersionId>>
  /\ UNCHANGED auth

\* an update_settings that asks the store nothing about the slug
UpdateSettingsAnySlug(c) ==
  /\ CanBegin(c)
  /\ retry' = NoRetry
  /\ \E project_id \in ProjectIds, given \in SettingsGiven, ok \in BOOLEAN :
       LET rec == [op |-> "update_settings", pc |-> "begin", args |-> [project_id |-> project_id, given |-> given]]
           updates == given @@ [updated_at |-> Now]
       IN IF DOMAIN given = {}
          THEN /\ UNCHANGED projects
               /\ Return(c, rec, "Nothing to update", NULL)
          ELSE IF ProjectFound(ok, project_id)
          THEN /\ projects' = UpdateProject(projects, project_id, updates)
               /\ Return(c, rec, "Settings updated", [slug |-> projects'[project_id].slug,
                                                      is_public |-> projects'[project_id].is_public])
          ELSE /\ UNCHANGED projects
               /\ Return(c, rec, "Error updating settings", NULL)
  /\ UNCHANGED <<project_versions, project_files, nextProjectId, nextVersionId>>
  /\ UNCHANGED auth

\* updates.updated_at is always set; update(...).eq("id", project_id).select(...).single() fails on a
\* taken slug and on no row
UpdateSettings(c) ==
  /\ CanBegin(c)
  /\ retry' = NoRetry
  /\ \E project_id \in ProjectIds, given \in SettingsGiven, ok \in BOOLEAN :
       LET rec == [op |-> "update_settings", pc |-> "begin", args |-> [project_id |-> project_id, given |-> given]]
           updates == given @@ [updated_at |-> Now]
       IN IF DOMAIN given = {}
          THEN /\ UNCHANGED projects
               /\ Return(c, rec, "Nothing to update", NULL)
          ELSE IF ProjectFound(ok, project_id) /\ SlugFreeFor(projects, project_id, updates)
          THEN /\ projects' = UpdateProject(projects, project_id, updates)
               /\ Return(c, rec, "Settings updated", [slug |-> projects'[project_id].slug,
                                                      is_public |-> projects'[project_id].is_public])
          ELSE /\ UNCHANGED projects
               /\ Return(c, rec, "Error updating settings", NULL)
  /\ UNCHANGED <<project_versions, project_files, nextProjectId, nextVersionId>>
  /\ UNCHANGED auth

\* ---------------------------------------------------------------- the reply
\* the result goes back to the MCP client and the handler's locals are gone
Respond(c) ==
  /\ call[c].pc = "done"
  /\ call' = [call EXCEPT ![c] = Idle]
  /\ UNCHANGED retry
  /\ UNCHANGED <<tables, nextProjectId, nextVersionId>>
  /\ UNCHANGED auth

Next ==
  \E c \in {"c1"} :
    \/ CreateProjectInsert(c)
    \/ CreateProjectInsertVersion(c)
    \/ CreateProjectLink(c)
    \/ WriteFilesBegin(c)
    \/ WriteFilesDelete(c)
    \/ WriteFilesInsert(c)
    \/ DeleteFilesBegin(c)
    \/ DeleteFilesDelete(c)
    \/ PublishBegin(c)
    \/ PublishMark(c)
    \/ PublishReadNumber(c)
    \/ PublishInsertDraft(c)
    \/ PublishFallback(c)
    \/ PublishReadFiles(c)
    \/ PublishCopy(c)
    \/ PublishPointers(c)
    \/ RollbackBegin(c)
    \/ RollbackVerify(c)
    \/ RollbackReadSource(c)
    \/ RollbackDelete(c)
    \/ RollbackInsert(c)
    \/ DeleteProjectBegin(c)
    \/ DeleteProjectReadVersions(c)
    \/ DeleteProjectDeleteFiles(c)
    \/ DeleteProjectDeleteVersions(c)
    \/ DeleteProjectDelete(c)
    \/ GetProjectBegin(c)
    \/ GetProjectFiles(c)
    \/ GetPreviewUrl(c)
    \/ Respond(c)

Spec == Init /\ [][Next]_vars

\* Two MCP clients at once: the store calls of their write_files handlers interleave, on the store that
\* one successful create_project leaves.
InitWriters ==
  /\ projects = (1 :> [NewProject("my-bakery") EXCEPT !.draft_version_id = 1])
  /\ project_versions = (1 :> NewVersion(1, 1, "Initial version"))
  /\ project_files = EmptyBag
  /\ nextProjectId = 2
  /\ nextVersionId = 2
  /\ call = [c \in Callers |-> Idle]
  /\ retry = NoRetry
  /\ NoAuth

NextWriters ==
  \E c \in Callers :
    \/ WriteFilesBegin(c)
    \/ WriteFilesDelete(c)
    \/ WriteFilesInsert(c)
    \/ Respond(c)

SpecWriters == InitWriters /\ [][NextWriters]_vars

\* The settings of a project next to its creation and its publishing, one MCP client. No project has
\* files, so no publish issues the copy insert.
NextSettings ==
  \E c \in {"c1"} :
    \/ CreateProjectInsert(c)
    \/ CreateProjectInsertVersion(c)
    \/ CreateProjectLink(c)
    \/ PublishBegin(c)
    \/ PublishMark(c)
    \/ PublishReadNumber(c)
    \/ PublishInsertDraft(c)
    \/ PublishFallback(c)
    \/ PublishReadFiles(c)
    \/ PublishPointers(c)
    \/ UpdateSettings(c)
    \/ Respond(c)

SpecSettings == Init /\ [][NextSettings]_vars

\* The read-only tools next to the handlers that fill what they read, one MCP client.
NextReads ==
  \E c \in {"c1"} :
    \/ CreateProjectInsert(c)
    \/ CreateProjectInsertVersion(c)
    \/ CreateProjectLink(c)
    \/ WriteFilesBegin(c)
    \/ WriteFilesDelete(c)
    \/ WriteFilesInsert(c)
    \/ PublishBegin(c)
    \/ PublishMark(c)
    \/ PublishReadNumber(c)
    \/ PublishInsertDraft(c)
    \/ PublishFallback(c)
    \/ PublishReadFiles(c)
    \/ PublishCopy(c)
    \/ PublishPointers(c)
    \/ GetProjectBegin(c)
    \/ GetProjectFiles(c)
    \/ GetPreviewUrl(c)
    \/ ListProjects(c)
    \/ ReadFilesBegin(c)
    \/ ReadFilesQuery(c)
    \/ ListVersionsBegin(c)
    \/ ListVersionsQuery(c)
    \/ Respond(c)

SpecReads == Init /\ [][NextReads]_vars

\* Two MCP clients at once: the store calls of their publish handlers interleave, on the store that one
\* successful create_project leaves. The project has no files, so no publish issues the copy insert.
NextPublishers ==
  \E c \in Callers :
    \/ PublishBegin(c)
    \/ PublishMark(c)
    \/ PublishReadNumber(c)
    \/ PublishInsertDraft(c)
    \/ PublishFallback(c)
    \/ PublishReadFiles(c)
    \/ PublishPointers(c)
    \/ Respond(c)

SpecPublishers == InitWriters /\ [][NextPublishers]_vars

\* The store after create_project, write_files of index.html and a publish whose draft insert failed:
\* project 1 is live at version 1 and has no draft.
InitLost ==
  /\ projects = (1 :> [NewProject("my-bakery") EXCEPT !.active_version_id = 1, !.status = "published"])
  /\ project_versions = (1 :> [NewVersion(1, 1, "Published") EXCEPT !.is_draft = FALSE])
  /\ project_files = SetToBag({FileRow(1, WrittenFile(FirstFile))})
  /\ nextProjectId = 2
  /\ nextVersionId = 2
  /\ call = [c \in Callers |-> Idle]
  /\ retry = NoRetry
  /\ NoAuth

NextLost ==
  \/ Next
  \/ \E c \in {"c1"} :
       \/ UpdateSettings(c)
       \/ ListProjects(c)
       \/ ReadFilesBegin(c)
       \/ ReadFilesQuery(c)
       \/ ListVersionsBegin(c)
       \/ ListVersionsQuery(c)

\* the server keeps answering and its clients keep calling
SpecLost == InitLost /\ [][NextLost]_vars /\ WF_vars(NextLost)

\* Two MCP clients at once: the store calls of publish and delete_project interleave, on the store that
\* one successful create_project leaves. The project has no files, so no publish issues the copy insert.
NextDeleters ==
  \E c \in Callers :
    \/ PublishBegin(c)
    \/ PublishMark(c)
    \/ PublishReadNumber(c)
    \/ PublishInsertDraft(c)
    \/ PublishFallback(c)
    \/ PublishReadFiles(c)
    \/ PublishPointers(c)
    \/ DeleteProjectBegin(c)
    \/ DeleteProjectReadVersions(c)
    \/ DeleteProjectDeleteFiles(c)
    \/ DeleteProjectDeleteVersions(c)
    \/ DeleteProjectDelete(c)
    \/ Respond(c)

SpecDeleters == InitWriters /\ [][NextDeleters]_vars

\* The store after two successful create_project calls and a successful delete_project of the second
\* project: project 1 with its empty draft, version 1.
InitOverlap ==
  /\ projects = (1 :> [NewProject("my-bakery") EXCEPT !.draft_version_id = 1])
  /\ project_versions = (1 :> NewVersion(1, 1, "Initial version"))
  /\ project_files = EmptyBag
  /\ nextProjectId = 3
  /\ nextVersionId = 3
  /\ call = [c \in Callers |-> Idle]
  /\ retry = NoRetry
  /\ NoAuth

\* Two MCP clients at once, one publishing and one editing files.
NextOverlap ==
  \/ \E c \in {"c1"} :
       \/ PublishBegin(c)
       \/ PublishMark(c)
       \/ PublishReadNumber(c)
       \/ PublishInsertDraft(c)
       \/ PublishFallback(c)
       \/ PublishReadFiles(c)
       \/ PublishCopy(c)
       \/ PublishPointers(c)
  \/ \E c \in {"c2"} :
       \/ WriteFilesBegin(c)
       \/ WriteFilesDelete(c)
       \/ WriteFilesInsert(c)
       \/ DeleteFilesBegin(c)
       \/ DeleteFilesDelete(c)
  \/ \E c \in Callers : Respond(c)

SpecOverlap == InitOverlap /\ [][NextOverlap]_vars

\* The file server next to the handlers that fill and move what it serves, one client at a time.
NextServe ==
  \E c \in {"c1"} :
    \/ CreateProjectInsert(c)
    \/ CreateProjectInsertVersion(c)
    \/ CreateProjectLink(c)
    \/ WriteFilesBegin(c)
    \/ WriteFilesDelete(c)
    \/ WriteFilesInsert(c)
    \/ DeleteFilesBegin(c)
    \/ DeleteFilesDelete(c)
    \/ PublishBegin(c)
    \/ PublishMark(c)
    \/ PublishReadNumber(c)
    \/ PublishInsertDraft(c)
    \/ PublishFallback(c)
    \/ PublishReadFiles(c)
    \/ PublishCopy(c)
    \/ PublishPointers(c)
    \/ ServeAppBegin(c)
    \/ ServeAppFile(c)
    \/ Respond(c)

SpecServe == Init /\ [][NextServe]_vars

\* The file server while one client publishes and another edits files, from the store of InitOverlap.
NextServeOverlap ==
  \/ \E c \in {"c1"} :
       \/ PublishBegin(c)
       \/ PublishMark(c)
       \/ PublishReadNumber(c)
       \/ PublishInsertDraft(c)
       \/ PublishFallback(c)
       \/ PublishReadFiles(c)
       \/ PublishCopy(c)
       \/ PublishPointers(c)
  \/ \E c \in {"c2"} :
       \/ WriteFilesBegin(c)
       \/ WriteFilesDelete(c)
       \/ WriteFilesInsert(c)
       \/ ServeAppBegin(c)
       \/ ServeAppFile(c)
  \/ \E c \in Callers : Respond(c)

SpecServeOverlap == InitOverlap /\ [][NextServeOverlap]_vars

\* ---------------------------------------------------------------- the content type of a written file
\* file paths with and without a dot, in either case, with a known or an unknown last piece
PathNames ==
  Paths \cup {"css/style.css", "photo.JPG", "Index.Html", "archive.tar.gz", "app.min.js", "v1.2/notes",
              "notes.", ".gitignore", "README", "html", "JSON", "docs/md", "app.constructor"}

\* content_type: z.string().optional(): omitted, empty, or a MIME type
GivenContentTypes == {Undefined, "", "application/xml"}

ContentTypeInputs == [file_path : PathNames, content : Contents, content_type : GivenContentTypes]

\* a write_files call about to compute the content type of one file of its batch
InitContentType ==
  /\ projects = << >>
  /\ project_versions = << >>
  /\ project_files = EmptyBag
  /\ nextProjectId = 1
  /\ nextVersionId = 1
  /\ \E file \in ContentTypeInputs :
       call = [c \in Callers |-> IF c = "c1" THEN [op |-> "contentType", pc |-> "begin", args |-> file]
                                 ELSE Idle]
  /\ retry = NoRetry
  /\ NoAuth

\* const contentType = file.content_type ?? guessContentType(file.file_path), as the row to insert
ContentTypeApply(c) ==
  /\ At(c, "contentType", "begin")
  /\ Return(c, call[c], "OK", WrittenFile(call[c].args))
  /\ UNCHANGED retry
  /\ UNCHANGED <<tables, nextProjectId, nextVersionId>>
  /\ UNCHANGED auth

NextContentType == \E c \in {"c1"} : ContentTypeApply(c) \/ Respond(c)

SpecContentType == InitContentType /\ [][NextContentType]_vars

\* ---------------------------------------------------------------- /authorize and /callback
\* parseAuthRequest yields the client's request, with or without a clientId
ClientIds == {"claude", ""}

\* handleAuthorize: a fresh state token, the request stored under it, the redirect to Google; a put
\* that throws ends the request with the Worker's 500
HandleAuthorize(c) ==
  /\ CanBegin(c)
  /\ retry' = NoRetry
  /\ \E clientId \in ClientIds, ok \in BOOLEAN :
       LET rec == [op |-> "authorize", pc |-> "begin", args |-> [clientId |-> clientId]]
       IN IF clientId = ""
          THEN /\ Return(c, rec, "400 Invalid OAuth request", NULL)
               /\ UNCHANGED <<OAUTH_KV, nextState>>
          ELSE /\ nextState <= MaxStates
               /\ nextState' = nextState + 1
               /\ IF ok
                  THEN /\ OAUTH_KV' = OAUTH_KV @@ (nextState :> [clientId |-> clientId])
                       /\ Return(c, rec, "302", [state |-> nextState])
                  ELSE /\ UNCHANGED OAUTH_KV
                       /\ Return(c, rec, "500", NULL)
  /\ UNCHANGED <<usedCodes, completed>>
  /\ UNCHANGED <<tables, nextProjectId, nextVersionId>>

\* { expirationTtl: 600 }: a stored request disappears ten minutes after it was put
KvExpire ==
  /\ \E state \in DOMAIN OAUTH_KV : OAUTH_KV' = [s \in DOMAIN OAUTH_KV \ {state} |-> OAUTH_KV[s]]
  /\ UNCHANGED <<nextState, usedCodes, completed>>
  /\ UNCHANGED <<tables, nextProjectId, nextVersionId, call, retry>>

\* the query parameters of a callback: a missing one reads as null, here "" and NULL
CodeParams == Codes \cup {""}
StateParams == StateTokens \cup {NULL}

\* handleCallback up to its first await: the parameters and the get of the stored request
HandleCallbackGet(c) ==
  /\ CanBegin(c)
  /\ retry' = NoRetry
  /\ \E code \in CodeParams, state \in StateParams, ok \in BOOLEAN :
       LET rec == [op |-> "callback", pc |-> "begin", args |-> [code |-> code, state |-> state]]
       IN IF code = "" \/ state = NULL
          THEN Return(c, rec, "400 Missing code or state from Google", NULL)
          ELSE IF ~ok
          THEN Return(c, rec, "500", NULL)
          ELSE IF state \notin DOMAIN OAUTH_KV
          THEN Return(c, rec, "400 Invalid or expired state", NULL)
          ELSE Goto(c, rec @@ [stored |-> OAUTH_KV[state]], "delete")
  /\ UNCHANGED auth
  /\ UNCHANGED <<tables, nextProjectId, nextVersionId>>

\* await env.OAUTH_KV.delete(...): deleting a key that is gone is no error
HandleCallbackDelete(c) ==
  /\ At(c, "callback", "delete")
  /\ UNCHANGED retry
  /\ \E ok \in BOOLEAN :
       IF ok
       THEN /\ OAUTH_KV' = [s \in DOMAIN OAUTH_KV \ {call[c].args.state} |-> OAUTH_KV[s]]
            /\ Goto(c, call[c], "token")
       ELSE /\ UNCHANGED OAUTH_KV
            /\ Return(c, call[c], "500", NULL)
  /\ UNCHANGED <<nextState, usedCodes, completed>>
  /\ UNCHANGED <<tables, nextProjectId, nextVersionId>>

\* the exchange of Google's code for tokens: Google accepts a code it has not exchanged before, or
\* answers with an error status
HandleCallbackToken(c) ==
  /\ At(c, "callback", "token")
  /\ UNCHANGED retry
  /\ \E ok \in BOOLEAN :
       IF ok /\ call[c].args.code \notin usedCodes
       THEN /\ usedCodes' = usedCodes \cup {call[c].args.code}
            /\ Goto(c, call[c], "profile")
       ELSE /\ UNCHANGED usedCodes
            /\ Return(c, call[c], "502 Failed to exchange Google authorization code", NULL)
  /\ UNCHANGED <<OAUTH_KV, nextState, completed>>
  /\ UNCHANGED <<tables, nextProjectId, nextVersionId>>

\* the fetch of the user's Google profile
HandleCallbackProfile(c) ==
  /\ At(c, "callback", "profile")
  /\ UNCHANGED retry
  /\ \E ok \in BOOLEAN :
       IF ok THEN Goto(c, call[c], "complete")
       ELSE Return(c, call[c], "502 Failed to fetch Google profile", NULL)
  /\ UNCHANGED auth
  /\ UNCHANGED <<tables, nextProjectId, nextVersionId>>

\* env.OAUTH_PROVIDER.completeAuthorization({ request: oauthReqInfo, ... }) and the redirect to the client
HandleCallbackComplete(c) ==
  /\ At(c, "callback", "complete")
  /\ UNCHANGED retry
  /\ completed' = [completed EXCEPT ![call[c].args.state] = @ + 1]
  /\ Return(c, call[c], "302", [request |-> call[c].stored])
  /\ UNCHANGED <<OAUTH_KV, nextState, usedCodes>>
  /\ UNCHANGED <<tables, nextProjectId, nextVersionId>>

\* Two browsers talking to the Worker's /authorize and /callback.
NextAuth ==
  \/ \E c \in Callers :
       \/ HandleAuthorize(c)
       \/ HandleCallbackGet(c)
       \/ HandleCallbackDelete(c)
       \/ HandleCallbackToken(c)
       \/ HandleCallbackProfile(c)
       \/ HandleCallbackComplete(c)
       \/ Respond(c)
  \/ KvExpire

SpecAuth == Init /\ [][NextAuth]_vars

\* ================================================================ claims
DraftsOf(project_id) ==
  {v \in VersionsOfProject(project_versions, project_id) : project_versions[v].is_draft}

\* C1: in every reachable state, also after a store step of publish failed, each project has at most
\* one Version whose is_draft is true.
C1_AtMostOneDraftVersion ==
  \A p \in ProjectIds : Cardinality(DraftsOf(p)) <= 1

\* the step at which caller c's handler `op` returns `result`
Returns(c, op, result) ==
  call[c].pc # "done" /\ call'[c].pc = "done" /\ call'[c].op = op /\ call'[c].result = result

NotFound == "Version not found or doesn't belong to this project"

\* C2: when publish on a project whose draft is version N reports success, active_version_id references
\* version N, draft_version_id references a newly created Version with version_number N + 1 and is_draft,
\* status is published, and the new draft's files are the files version N had when publish was called.
C2_PublishSuccessPostcondition ==
  [][\A c \in Callers : Returns(c, "publish", "Published successfully") =>
       LET p == call[c].args.project_id
           pre == call[c].pre
           n == pre.projects[p].draft_version_id
       IN /\ p \in DOMAIN projects'
          /\ projects'[p].active_version_id = n
          /\ projects'[p].status = "published"
          /\ LET d == projects'[p].draft_version_id IN
               /\ d \in DOMAIN project_versions' \ DOMAIN pre.project_versions
               /\ project_versions'[d].version_number = pre.project_versions[n].version_number + 1
               /\ project_versions'[d].is_draft
               /\ SelectFiles(project_files', d) = SelectFiles(pre.project_files, n)]_vars

\* C3: once a Version is published (is_draft = false), no step of a later write_files, delete_files or
\* rollback call on its project changes that Version's files.
C3_PublishedFilesImmutable ==
  [][\A c \in Callers : call'[c].op \in {"write_files", "delete_files", "rollback"} =>
       \A v \in DOMAIN project_versions :
         (~project_versions[v].is_draft /\ project_versions[v].project_id = call'[c].args.project_id)
           => SelectFiles(project_files', v) = SelectFiles(project_files, v)]_vars

\* C4: within a project no two Versions share a version_number, and every newly created Version gets a
\* version_number greater than that of every Version the project already has.
C4_VersionNumbersUniqueIncreasing ==
  [][/\ \A v, w \in DOMAIN project_versions' :
          (v # w /\ project_versions'[v].project_id = project_versions'[w].project_id)
            => project_versions'[v].version_number # project_versions'[w].version_number
     /\ \A v \in DOMAIN project_versions' \ DOMAIN project_versions :
          \A w \in VersionsOfProject(project_versions, project_versions'[v].project_id) :
            project_versions'[v].version_number > project_versions[w].version_number]_vars

\* C5: once a Version's is_draft is false it never becomes true again, whatever the operation.
C5_PublishedStaysPublished ==
  [][\A v \in DOMAIN project_versions \cap DOMAIN project_versions' :
       ~project_versions[v].is_draft => ~project_versions'[v].is_draft]_vars

\* a publish has marked, a second time, a version that was published already, and it stayed published
C5_Witness ==
  \E c \in Callers :
    /\ At(c, "publish", "readNumber")
    /\ ~call[c].pre.project_versions[call[c].draft_version_id].is_draft
    /\ ~project_versions[call[c].draft_version_id].is_draft

\* C6: if publish marked the draft published and then failed to create the new draft, the project ends
\* with active_version_id = the just-published Version, draft_version_id = null and status = published,
\* and the caller is told that publish succeeded but draft creation failed.
C6_DraftCreationFailed ==
  [][\A c \in Callers : (At(c, "publish", "fallback") /\ call'[c].pc = "done") =>
       LET p == call[c].args.project_id IN
       /\ call'[c].result = "Published! But failed to create new draft"
       /\ p \in DOMAIN projects'
       /\ projects'[p].active_version_id = call[c].draft_version_id
       /\ projects'[p].draft_version_id = NULL
       /\ projects'[p].status = "published"]_vars

\* C7: a successful rollback(project, V) leaves the draft's files equal to the files V had before the
\* call (V may be the draft itself) and reports files_copied = the number of files of V.
C7_RollbackPostcondition ==
  [][\A c \in Callers : Returns(c, "rollback", "Rolled back") =>
       LET source == SelectFiles(call[c].pre.project_files, call[c].args.version_id) IN
       /\ SelectFiles(project_files', call[c].draft_version_id) = source
       /\ call'[c].payload.files_copied = BagCardinality(source)]_vars

\* C8: no step of rollback changes anything but the files of the project's current draft Version: no
\* Version is created or changed, the Project rows stay as they are, and the files of every other
\* Version stay as they are.
C8_RollbackFrame ==
  [][\A c \in Callers : call'[c].op = "rollback" =>
       LET p == call'[c].args.project_id IN
       /\ projects' = projects
       /\ project_versions' = project_versions
       /\ nextVersionId' = nextVersionId
       /\ \A r \in DOMAIN project_files \cup DOMAIN project_files' :
            CopiesIn(r, project_files') # CopiesIn(r, project_files)
              => (p \in DOMAIN projects /\ r.version_id = projects[p].draft_version_id)]_vars

\* a rollback has replaced a draft file by the copy of another version's file
C8_Witness ==
  \E c \in Callers :
    /\ call[c].op = "rollback" /\ call[c].pc = "done" /\ call[c].result = "Rolled back"
    /\ call[c].payload.files_copied > 0
    /\ call[c].failed = {}
    /\ call[c].args.version_id # projects[call[c].args.project_id].draft_version_id

\* the rollback that `retry` remembers is repeated, and no store call of the repetition fails
RetriedCleanly(c) ==
  call[c].op = "rollback" /\ call[c].pc = "done" /\ call[c].expect.set /\ call[c].failed = {}

\* a rollback that deleted the draft's files and then failed to insert the copies left the draft empty
RetryLeavesDraftEmpty ==
  (retry.set /\ retry.deleted) => SelectFiles(project_files, retry.draft_version_id) = EmptyBag

\* C9 as claimed: ... and re-running the same rollback reaches the end state of a failure-free rollback,
\* for every target Version of the project.
C9_RetryReachesSameState ==
  /\ RetryLeavesDraftEmpty
  /\ \A c \in Callers : (RetriedCleanly(c) /\ call[c].expect.deleted) =>
       (call[c].result = "Rolled back" /\ project_files = call[c].expect.files)

\* C9 amended: ... for every target Version of the project other than the current draft itself.
C9_RetryReachesSameStateOtherTarget ==
  /\ RetryLeavesDraftEmpty
  /\ \A c \in Callers :
       (RetriedCleanly(c) /\ call[c].expect.deleted /\ call[c].args.version_id # call[c].expect.draft_version_id) =>
         (call[c].result = "Rolled back" /\ project_files = call[c].expect.files)

\* a rollback to another version was repeated after "Error copying files" and went through
C9_Witness ==
  \E c \in Callers :
    /\ RetriedCleanly(c) /\ call[c].expect.deleted
    /\ call[c].args.version_id # call[c].expect.draft_version_id
    /\ call[c].result = "Rolled back"

\* C10: a rollback whose target does not exist or belongs to another project returns the not-found
\* failure, and a rollback that returns it has changed no row.
C10_RollbackUnknownTarget ==
  [][\A c \in Callers :
       /\ (/\ At(c, "rollback", "verify") /\ call'[c] # call[c]
           /\ \/ call[c].args.version_id \notin DOMAIN project_versions
              \/ project_versions[call[c].args.version_id].project_id # call[c].args.project_id)
            => (call'[c].pc = "done" /\ call'[c].result = NotFound)
       /\ Returns(c, "rollback", NotFound) =>
            /\ projects' = call[c].pre.projects
            /\ project_versions' = call[c].pre.project_versions
            /\ project_files' = call[c].pre.project_files]_vars

\* a rollback whose target is a version of the other project has returned not-found
C10_Witness ==
  \E c \in Callers :
    /\ call[c].op = "rollback" /\ call[c].pc = "done" /\ call[c].result = NotFound
    /\ call[c].args.version_id \in DOMAIN project_versions
    /\ project_versions[call[c].args.version_id].project_id # call[c].args.project_id
    /\ project_files # EmptyBag

\* caller c's handler `op` begins (its first store call included)
Begins(c, op) == call[c].pc = "idle" /\ call'[c].op = op

\* C11: delete_project with confirm = false returns the distinct "not confirmed" outcome, which no
\* confirmed call returns, and changes no Project, Version or File row.
C11_NotConfirmedChangesNothing ==
  [][\A c \in Callers :
       /\ (Begins(c, "delete_project") /\ ~call'[c].args.confirm) =>
            (call'[c].pc = "done" /\ call'[c].result = "Deletion not confirmed" /\ tables' = tables)
       /\ Returns(c, "delete_project", "Deletion not confirmed") => ~call'[c].args.confirm]_vars

\* an unconfirmed delete_project of a project that has files has returned
C11_Witness ==
  \E c \in Callers :
    /\ call[c].op = "delete_project" /\ call[c].pc = "done" /\ ~call[c].args.confirm
    /\ call[c].args.project_id \in DOMAIN projects
    /\ \E r \in DOMAIN project_files : project_versions[r.version_id].project_id = call[c].args.project_id

\* C12: after delete_project with confirm = true reports success, the Project row, the project's
\* Versions and their Files are gone and every row of every other project is as before the call; a
\* get_project on an id that has no Project row returns a failure.
C12_DeletedProjectIsGone ==
  [][\A c \in Callers :
       /\ Returns(c, "delete_project", "Project deleted permanently") =>
            LET p == call[c].args.project_id
                pre == call[c].pre
                gone == {v \in DOMAIN pre.project_versions : pre.project_versions[v].project_id = p}
            IN /\ p \notin DOMAIN projects'
               /\ \A v \in DOMAIN project_versions' : project_versions'[v].project_id # p
               /\ \A r \in DOMAIN project_files' : r.version_id \notin gone
               /\ \A q \in DOMAIN pre.projects \ {p} : q \in DOMAIN projects' /\ projects'[q] = pre.projects[q]
               /\ \A v \in DOMAIN pre.project_versions \ gone :
                    v \in DOMAIN project_versions' /\ project_versions'[v] = pre.project_versions[v]
               /\ \A r \in DOMAIN pre.project_files \cup DOMAIN project_files' :
                    r.version_id \notin gone => CopiesIn(r, project_files') = CopiesIn(r, pre.project_files)
       /\ (Begins(c, "get_project") /\ call'[c].args.project_id \notin DOMAIN projects) =>
            (call'[c].pc = "done" /\ call'[c].result = "Error")]_vars

\* a project was deleted while another project kept its draft and its file
C12_Witness ==
  \E c \in Callers :
    /\ call[c].op = "delete_project" /\ call[c].pc = "done" /\ call[c].result = "Project deleted permanently"
    /\ call[c].args.project_id < nextProjectId
    /\ call[c].args.project_id \notin DOMAIN projects
    /\ \E q \in DOMAIN projects : \E r \in DOMAIN project_files : r.version_id = projects[q].draft_version_id

\* the operations that need a draft, and the failures they return
NeedDraft == {"publish", "rollback", "write_files", "delete_files", "get_preview_url"}

Failures ==
  {"Error", "No draft version to publish", "No draft version to roll back into", "No draft version found",
   "No draft version exists for this project"}

\* C13: on a project whose draft_version_id is null, publish, rollback, write_files, delete_files and
\* get_preview_url each return a failure and change no row, also when the project has an active version.
C13_NoDraftFailsUnchanged ==
  [][\A c \in Callers : \A op \in NeedDraft :
       (/\ Begins(c, op)
        /\ call'[c].args.project_id \in DOMAIN projects
        /\ projects[call'[c].args.project_id].draft_version_id = NULL) =>
         (call'[c].pc = "done" /\ call'[c].result \in Failures /\ tables' = tables)]_vars

\* write_files was refused on a project without draft whose active version has a file
C13_Witness ==
  \E c \in Callers :
    /\ call[c].op = "write_files" /\ call[c].pc = "done" /\ call[c].result = "No draft version found"
    /\ LET p == call[c].args.project_id IN
         /\ p \in DOMAIN projects
         /\ projects[p].draft_version_id = NULL
         /\ \E r \in DOMAIN project_files : r.version_id = projects[p].active_version_id

\* what one write of `file` makes of the files F of the draft: the rows at its path replaced by one row
WriteOnce(F, draft_version_id, file) ==
  LET kept == [r \in {x \in DOMAIN F : ~(x.version_id = draft_version_id /\ x.file_path = file.file_path)} |-> F[r]]
      row == [version_id |-> draft_version_id, file_path |-> file.file_path, content |-> file.content,
              content_type |-> IF file.content_type # Undefined THEN file.content_type
                               ELSE guessContentType(file.file_path)]
  IN kept (+) SetToBag({row})

AllOk(results) == \A i \in DOMAIN results : results[i].ok

\* C14: when a write_files call writes a {path, content} that the draft already holds, or writes it twice
\* in one batch, and reports every file OK, the draft ends with exactly the files one write of it gives:
\* one File at that path with that content, the other paths as they were.
C14_WriteTwiceIsWriteOnce ==
  [][\A c \in Callers : (Returns(c, "write_files", "Files written") /\ AllOk(call'[c].payload)) =>
       LET files == call[c].args.files
           file == files[1]
           d == call[c].draft_version_id
           pre == call[c].pre.project_files
           row == [version_id |-> d, file_path |-> file.file_path, content |-> file.content,
                   content_type |-> IF file.content_type # Undefined THEN file.content_type
                                    ELSE guessContentType(file.file_path)]
       IN ((\A i \in DOMAIN files : files[i] = file) /\ (Len(files) = 2 \/ row \in DOMAIN pre))
            => project_files' = WriteOnce(pre, d, file)]_vars

\* C15: in every reachable state no Version has two Files with the same file_path.
C15_PathsUniquePerVersion ==
  \A r, q \in DOMAIN project_files :
    (r.version_id = q.version_id /\ r.file_path = q.file_path) => (r = q /\ project_files[r] = 1)

\* caller c's write_files has finished with every file reported OK, one of them at `path` of project p
WroteOk(c, p, path) ==
  /\ call[c].op = "write_files" /\ call[c].pc = "done" /\ call[c].result = "Files written"
  /\ call[c].args.project_id = p
  /\ AllOk(call[c].payload)
  /\ \E i \in DOMAIN call[c].args.files : call[c].args.files[i].file_path = path

\* C16: once two write_files calls that wrote the same path into the same draft have both finished, the
\* draft holds exactly one File at that path, with the content written by one of the two calls.
C16_ConcurrentWritesLastWins ==
  \A p \in DOMAIN projects : \A path \in Paths :
    ((\A c \in Callers : WroteOk(c, p, path)) /\ projects[p].draft_version_id # NULL) =>
      LET rows == {r \in DOMAIN project_files :
                     r.version_id = projects[p].draft_version_id /\ r.file_path = path}
      IN \E r \in rows :
           /\ rows = {r} /\ project_files[r] = 1
           /\ \E c \in Callers : \E i \in DOMAIN call[c].args.files :
                call[c].args.files[i].file_path = path /\ call[c].args.files[i].content = r.content

\* the row a write of `file` into version d inserts
RowOf(d, file) ==
  [version_id |-> d, file_path |-> file.file_path, content |-> file.content,
   content_type |-> IF file.content_type # Undefined THEN file.content_type ELSE guessContentType(file.file_path)]

\* the insert step of one file: it is reported OK exactly when its row was added, and a failed insert
\* leaves the files as they were
InsertOutcome(c) ==
  (At(c, "write_files", "insert") /\ call'[c] # call[c]) =>
    LET row == RowOf(call[c].draft_version_id, Head(call[c].files))
        results == IF call'[c].pc = "done" THEN call'[c].payload ELSE call'[c].results
        reported == results[Len(results)]
    IN /\ Len(results) = Len(call[c].results) + 1
       /\ reported.file_path = row.file_path
       /\ reported.ok <=> CopiesIn(row, project_files') = CopiesIn(row, project_files) + 1
       /\ ~reported.ok => project_files' = project_files

\* the end of the batch: every file has its own outcome, and each file reported OK is in the draft with
\* the written content
BatchOutcome(c) ==
  LET files == call[c].args.files
      results == call'[c].payload
  IN /\ Len(results) = Len(files)
     /\ \A i \in DOMAIN files :
          /\ results[i].file_path = files[i].file_path
          /\ results[i].ok => RowOf(call[c].draft_version_id, files[i]) \in DOMAIN project_files'

DistinctPaths(files) ==
  \A i, j \in DOMAIN files : i # j => files[i].file_path # files[j].file_path

\* C17 as claimed: ... a file is reported OK only if it is present in the draft with the written
\* content, whatever the batch.
C17_PerFileOutcomes ==
  [][\A c \in Callers :
       /\ InsertOutcome(c)
       /\ Returns(c, "write_files", "Files written") => BatchOutcome(c)]_vars

\* C17 amended: ... in a batch whose paths are pairwise distinct.
C17_PerFileOutcomesDistinctPaths ==
  [][\A c \in Callers :
       /\ InsertOutcome(c)
       /\ (Returns(c, "write_files", "Files written") /\ DistinctPaths(call[c].args.files)) => BatchOutcome(c)]_vars

\* a batch whose first file failed and whose second file was written all the same
C17_Witness ==
  \E c \in Callers :
    /\ call[c].op = "write_files" /\ call[c].pc = "done" /\ call[c].result = "Files written"
    /\ Len(call[c].payload) = 2
    /\ ~call[c].payload[1].ok /\ call[c].payload[2].ok
    /\ call[c].payload[1].file_path # call[c].payload[2].file_path

\* C18: a delete_files that reports a count has removed exactly the Files of the project's current draft
\* whose path is in the list, the count is the number of Files removed (which may be less than the
\* number of paths), and the Files of every other Version are as before; a delete_files that reports an
\* error has removed nothing.
C18_DeleteFilesExact ==
  [][\A c \in Callers :
       (At(c, "delete_files", "delete") /\ call'[c] # call[c]) =>
         LET d == projects[call[c].args.project_id].draft_version_id
             paths == call[c].args.file_paths
         IN IF call'[c].result = "Deleted"
            THEN /\ \A r \in DOMAIN project_files \cup DOMAIN project_files' :
                      CopiesIn(r, project_files') =
                        IF r.version_id = d /\ r.file_path \in paths THEN 0 ELSE CopiesIn(r, project_files)
                 /\ call'[c].payload = BagCardinality(project_files) - BagCardinality(project_files')
                 /\ projects' = projects /\ project_versions' = project_versions
            ELSE call'[c].result = "Error deleting files" /\ tables' = tables]_vars

\* delete_files was given two paths, removed the one File that existed and reported 1, and another
\* Version still has its File
C18_Witness ==
  \E c \in Callers :
    /\ call[c].op = "delete_files" /\ call[c].pc = "done" /\ call[c].result = "Deleted"
    /\ Cardinality(call[c].args.file_paths) = 2
    /\ call[c].payload = 1
    /\ project_files # EmptyBag

\* C19: when create_project reports success, the new project's draft_version_id references a Version
\* with version_number 1 and is_draft = true, its active_version_id is null and that Version has no
\* Files; and a get_project that returns a project returns its row as it is.
C19_CreatedProjectHasEmptyDraft ==
  [][\A c \in Callers :
       /\ Returns(c, "create_project", "Project created successfully") =>
            LET p == call[c].project_id IN
            /\ p \in DOMAIN projects'
            /\ projects'[p].draft_version_id # NULL
            /\ projects'[p].draft_version_id \in DOMAIN project_versions'
            /\ project_versions'[projects'[p].draft_version_id].version_number = 1
            /\ project_versions'[projects'[p].draft_version_id].is_draft
            /\ projects'[p].active_version_id = NULL
            /\ \A r \in DOMAIN project_files' : r.version_id # projects'[p].draft_version_id
       /\ Returns(c, "get_project", "Project") =>
            call'[c].payload.project = projects'[call'[c].args.project_id]]_vars

\* C20: when create_project has inserted the Project row and the insert of the initial Version fails,
\* the Project row is kept with draft_version_id = null, the project has no Version, and the caller is
\* told that the project was created but the initial version was not.
C20_VersionInsertFailed ==
  [][\A c \in Callers :
       (At(c, "create_project", "insertVersion") /\ call'[c].pc = "done") =>
         LET p == call[c].project_id IN
         /\ call'[c].result = "Project created but failed to create initial version"
         /\ p \in DOMAIN projects'
         /\ projects'[p] = projects[p]
         /\ projects'[p].draft_version_id = NULL
         /\ \A v \in DOMAIN project_versions' : project_versions'[v].project_id # p]_vars

\* create_project has reported the incomplete initialization and the project row is there without draft
C20_Witness ==
  \E c \in Callers :
    /\ call[c].op = "create_project" /\ call[c].pc = "done"
    /\ call[c].result = "Project created but failed to create initial version"
    /\ \E p \in DOMAIN projects :
         /\ projects[p].slug = call[c].args.slug
         /\ projects[p].draft_version_id = NULL
         /\ \A v \in DOMAIN project_versions : project_versions[v].project_id # p

\* C21: no two projects ever have the same slug; create_project with a slug in use, and update_settings
\* changing a slug to the slug of another project, fail and create or change no row.
C21_SlugsUnique ==
  [][/\ \A p, q \in DOMAIN projects' : p # q => projects'[p].slug # projects'[q].slug
     /\ \A c \in Callers :
          /\ (Begins(c, "create_project") /\ \E q \in DOMAIN projects : projects[q].slug = call'[c].args.slug)
               => call'[c].pc = "done" /\ call'[c].result = "Error creating project" /\ tables' = tables
          /\ (Begins(c, "update_settings") /\ "slug" \in DOMAIN call'[c].args.given
                /\ \E q \in DOMAIN projects \ {call'[c].args.project_id} : projects[q].slug = call'[c].args.given.slug)
               => call'[c].pc = "done" /\ call'[c].result = "Error updating settings" /\ tables' = tables]_vars

\* update_settings on an existing project was refused the slug of the other project
C21_Witness ==
  /\ call["c1"].pc = "done" /\ call["c1"].op = "update_settings"
  /\ call["c1"].result = "Error updating settings"
  /\ call["c1"].args.project_id \in DOMAIN projects
  /\ "slug" \in DOMAIN call["c1"].args.given
  /\ \E q \in DOMAIN projects \ {call["c1"].args.project_id} : projects[q].slug = call["c1"].args.given.slug

\* what update_settings leaves alone, given the fields of the project row it may write
UpdateSettingsFrame(c, written) ==
  LET project_id == call'[c].args.project_id
      given == call'[c].args.given
      ok == call'[c].result = "Settings updated"
  IN /\ call'[c].pc = "done"
     /\ project_versions' = project_versions /\ project_files' = project_files
     /\ DOMAIN projects' = DOMAIN projects
     /\ \A q \in DOMAIN projects \ {project_id} : projects'[q] = projects[q]
     /\ project_id \in DOMAIN projects =>
          \A f \in DOMAIN projects[project_id] \ (DOMAIN given \cup written) :
             projects'[project_id][f] = projects[project_id][f]
     /\ ok => project_id \in DOMAIN projects /\ \A f \in DOMAIN given : projects'[project_id][f] = given[f]
     /\ ~ok => projects' = projects
     /\ (DOMAIN given = {}) <=> (call'[c].result = "Nothing to update")

\* C22 as stated: update_settings changes only the fields supplied and leaves every other field of the
\* project, every version and every file unchanged; with no field supplied it changes nothing and returns
\* the distinct "nothing to update" outcome.
C22_OnlySuppliedFields ==
  [][\A c \in Callers : Begins(c, "update_settings") => UpdateSettingsFrame(c, {})]_vars

\* C22 amended: update_settings changes only the fields supplied and updated_at, which a successful call
\* sets to the time of the call; every other field of the project, every version and every file stay, and
\* with no field supplied it changes nothing and returns the distinct "nothing to update" outcome.
C22_OnlySuppliedFieldsAndUpdatedAt ==
  [][\A c \in Callers : Begins(c, "update_settings") =>
        /\ UpdateSettingsFrame(c, {"updated_at"})
        /\ call'[c].result = "Settings updated" => projects'[call'[c].args.project_id].updated_at = Now]_vars

\* a published project was made public: its pointers and status stay, updated_at moved
C22_Witness ==
  /\ call["c1"].pc = "done" /\ call["c1"].op = "update_settings" /\ call["c1"].result = "Settings updated"
  /\ call["c1"].args.given = [is_public |-> TRUE]
  /\ LET project == projects[call["c1"].args.project_id]
     IN /\ project.is_public /\ project.updated_at = Now
        /\ project.status = "published" /\ project.active_version_id # NULL /\ project.draft_version_id # NULL

\* the rows of project_files a read of version `version_id` restricted to `file_paths` is about
RowsAt(version_id, file_paths) ==
  [r \in {x \in DOMAIN project_files : x.version_id = version_id /\ x.file_path \in file_paths} |-> project_files[r]]

\* what read_files and get_project must show, `filtered` telling when the paths argument restricts
ReadsEffectiveVersion(c, filtered) ==
  LET project == projects[call'[c].args.project_id]
      version == IF project.draft_version_id # NULL THEN project.draft_version_id ELSE project.active_version_id
  IN /\ Returns(c, "read_files", "No version found for this project")
          => project.draft_version_id = NULL /\ project.active_version_id = NULL
     /\ (call'[c].pc = "done" /\ call[c].pc = "files" /\ call'[c].op = "read_files") =>
          LET wanted == IF filtered THEN call'[c].args.paths.file_paths ELSE Paths
              files == BagOfAll(LAMBDA r : [file_path |-> r.file_path, content |-> r.content,
                                            content_type |-> r.content_type], RowsAt(version, wanted))
          IN /\ version # NULL
             /\ call'[c].result \in {"Files", "No files found", "Error reading files"}
             /\ call'[c].result = "Files" => call'[c].payload = files /\ files # EmptyBag
             /\ call'[c].result = "No files found" => files = EmptyBag
     /\ Returns(c, "get_project", "Project") =>
          /\ call'[c].payload.project = project
          /\ call'[c].payload.files \sqsubseteq
               BagOfAll(LAMBDA r : [file_path |-> r.file_path, content_type |-> r.content_type], RowsAt(version, Paths))

\* C23 as stated: get_project and read_files read from the same effective version, the draft when
\* draft_version_id is non-null and the active version otherwise; read_files returns exactly the files of
\* that version whose path is among the given paths when paths is given, and all its files when it is not.
C23_ReadsEffectiveVersion ==
  [][\A c \in Callers : ReadsEffectiveVersion(c, call'[c].args.paths.given)]_vars

\* C23 amended: the same, with the paths restricting only when the given array is not empty; read_files
\* with an empty array returns all files of the effective version, as it does when paths is left out.
C23_ReadsEffectiveVersionNonEmptyPaths ==
  [][\A c \in Callers :
       ReadsEffectiveVersion(c, call'[c].args.paths.given /\ call'[c].args.paths.file_paths # {})]_vars

\* read_files picked one of the two files of the live version of a project that has no draft
C23_Witness ==
  /\ call["c1"].pc = "done" /\ call["c1"].op = "read_files" /\ call["c1"].result = "Files"
  /\ call["c1"].args.paths = [given |-> TRUE, file_paths |-> {"index.html"}]
  /\ BagCardinality(call["c1"].payload) = 1
  /\ LET project == projects[call["c1"].args.project_id]
     IN /\ project.draft_version_id = NULL /\ project.active_version_id # NULL
        /\ BagCardinality(RowsAt(project.active_version_id, Paths)) = 2

\* what list_versions must return for the project it was asked about
ListsAllVersions(c) ==
  LET project == projects[call'[c].args.project_id]
      list == call'[c].payload
      ids == {v \in DOMAIN project_versions : project_versions[v].project_id = call'[c].args.project_id}
  IN /\ {list[i].id : i \in DOMAIN list} = ids /\ Len(list) = Cardinality(ids)
     /\ \A i, j \in DOMAIN list : i < j => list[i].version_number >= list[j].version_number
     /\ \A i \in DOMAIN list :
          /\ list[i].version_number = project_versions[list[i].id].version_number
          /\ list[i].is_active <=> list[i].id = project.active_version_id
          /\ list[i].is_current_draft <=> list[i].id = project.draft_version_id
     /\ Cardinality({i \in DOMAIN list : list[i].is_active}) <= 1
     /\ Cardinality({i \in DOMAIN list : list[i].is_current_draft}) <= 1

\* what a list_versions after the step would show of a project whose first publish just succeeded
ShowsFirstPublish(project_id) ==
  /\ \E v \in DOMAIN project_versions' :
       /\ project_versions'[v].project_id = project_id /\ project_versions'[v].version_number = 1
       /\ v = projects'[project_id].active_version_id
  /\ \E v \in DOMAIN project_versions' :
       /\ project_versions'[v].project_id = project_id /\ project_versions'[v].version_number = 2
       /\ v = projects'[project_id].draft_version_id

\* C24: list_versions returns all versions of the project, newest version_number first, is_active exactly
\* on the version active_version_id names and is_current_draft exactly on the one draft_version_id names,
\* at most one entry with each flag; and once the first publish of a fresh project has reported success
\* the list shows version 1 active and version 2 as the current draft.
C24_ListVersions ==
  [][\A c \in Callers :
       /\ Returns(c, "list_versions", "Versions") => ListsAllVersions(c)
       /\ (Returns(c, "publish", "Published successfully") /\ call'[c].payload.version = 1
             /\ call'[c].args.project_id \in DOMAIN projects')
            => ShowsFirstPublish(call'[c].args.project_id)]_vars

ReadOnlyTools == {"get_preview_url", "list_projects", "get_project", "read_files", "list_versions"}

\* C25: no step of get_preview_url, list_projects, get_project, read_files or list_versions changes a
\* Project, Version or File row, whatever the call returns; get_preview_url on a project it found with a
\* draft returns the path /preview/<slug> with the slug the row has at that moment.
C25_ReadOnlyTools ==
  [][\A c \in Callers :
       /\ (call'[c] # call[c] /\ call'[c].op \in ReadOnlyTools) => tables' = tables
       /\ Begins(c, "get_preview_url") =>
            LET project_id == call'[c].args.project_id
            IN /\ call'[c].pc = "done"
               /\ call'[c].result = "Preview" =>
                    /\ project_id \in DOMAIN projects /\ projects[project_id].draft_version_id # NULL
                    /\ call'[c].payload.preview_url = <<"preview", projects[project_id].slug>>
               /\ (project_id \in DOMAIN projects /\ projects[project_id].draft_version_id # NULL)
                    => call'[c].result \in {"Preview", "Error"}
               /\ (project_id \in DOMAIN projects /\ projects[project_id].draft_version_id = NULL)
                    => call'[c].result \in {"No draft version exists for this project", "Error"}]_vars

\* the preview path of the second project was returned while the store held files
C25_Witness ==
  /\ call["c1"].pc = "done" /\ call["c1"].op = "get_preview_url" /\ call["c1"].result = "Preview"
  /\ call["c1"].payload.preview_url = <<"preview", "shop">>
  /\ project_files # EmptyBag

\* both clients hold the success reply of a publish on project 1
BothPublished ==
  \A c \in Callers :
    /\ call[c].pc = "done" /\ call[c].op = "publish" /\ call[c].result = "Published successfully"
    /\ call[c].args.project_id = 1

\* the rows two publishes of project 1 leave when one runs after the other: versions 1 and 2 published,
\* version 2 live, a draft numbered 3 as the current draft
TwoPublishesInTurn ==
  LET vs == {v \in DOMAIN project_versions : project_versions[v].project_id = 1}
      numbered(n) == {v \in vs : project_versions[v].version_number = n}
  IN /\ Cardinality(vs) = 3
     /\ \A n \in 1..3 : Cardinality(numbered(n)) = 1
     /\ \A v \in vs : project_versions[v].is_draft <=> v \in numbered(3)
     /\ projects[1].active_version_id \in numbered(2)
     /\ projects[1].draft_version_id \in numbered(3)
     /\ projects[1].status = "published"
     /\ project_files = EmptyBag

\* C26: however the store calls of two publish calls on one project interleave, once both have reported
\* success the Project, Version and File rows are those of running the two publishes one after the other.
C26_ConcurrentPublishesSerial ==
  BothPublished => TwoPublishesInTurn

\* the projects update of the step was issued for an existing row, would have changed it, and did not
UpdateLost(project_id, fields) ==
  /\ project_id \in DOMAIN projects
  /\ \E f \in DOMAIN fields : projects[project_id][f] # fields[f]
  /\ projects' = projects

PlainSuccess ==
  {"Project created successfully", "Published successfully", "Rolled back", "Project deleted permanently",
   "Settings updated"}

\* C27: no operation reports plain success after one of its store calls failed: not create_project or
\* publish after their pointer update was lost, and not rollback after any of its store calls failed.
C27_NoSuccessAfterStoreFailure ==
  [][\A c \in Callers :
       /\ (At(c, "create_project", "link") /\ call'[c].pc = "done"
             /\ UpdateLost(call[c].project_id, [draft_version_id |-> call[c].version_id]))
            => call'[c].result \notin PlainSuccess
       /\ (At(c, "publish", "pointers") /\ call'[c].pc = "done"
             /\ UpdateLost(call[c].args.project_id,
                           [active_version_id |-> call[c].draft_version_id, draft_version_id |-> call[c].newDraft]))
            => call'[c].result \notin PlainSuccess
       /\ (call[c].op = "rollback" /\ call[c].pc # "done" /\ call'[c].pc = "done" /\ call'[c].failed # {})
            => call'[c].result \notin PlainSuccess]_vars

\* the project is live and has no draft
DraftLost(p) ==
  p \in DOMAIN projects /\ projects[p].draft_version_id = NULL /\ projects[p].active_version_id # NULL

\* outside the create_project call that makes it, no step of any operation gives a project that has no
\* draft a draft
DraftStaysLost ==
  [][\A p \in ProjectIds :
       (/\ p \in DOMAIN projects /\ projects[p].draft_version_id = NULL /\ p \in DOMAIN projects'
        /\ \A c \in Callers : ~(call[c].op = "create_project" /\ call[c].pc # "done" /\ call[c].project_id = p))
         => projects'[p].draft_version_id = NULL]_vars

\* C28: a project that is live and has lost its draft comes to have a non-null draft_version_id again
\* through the operations applied to it.
C28_LostDraftRecoverable ==
  \A p \in ProjectIds : DraftLost(p) ~> (p \in DOMAIN projects /\ projects[p].draft_version_id # NULL)

\* C29: a confirmed delete_project clears the project's two pointers first and stops, deleting nothing,
\* when that fails; it removes versions only once none of them has a file left and the project only once
\* none of its versions is left; and no project row ever points at a version that is gone.
C29_DeleteProjectOrder ==
  [][/\ \A p \in DOMAIN projects' :
          /\ projects'[p].active_version_id # NULL => projects'[p].active_version_id \in DOMAIN project_versions'
          /\ projects'[p].draft_version_id # NULL => projects'[p].draft_version_id \in DOMAIN project_versions'
     /\ \A c \in Callers :
          /\ (call[c].pc = "idle" /\ call'[c].op = "delete_project" /\ call'[c].args.confirm) =>
               LET p == call'[c].args.project_id
               IN /\ project_versions' = project_versions /\ project_files' = project_files
                  /\ DOMAIN projects' = DOMAIN projects
                  /\ call'[c].pc = "done" => call'[c].result = "Error" /\ projects' = projects
                  /\ (call'[c].pc # "done" /\ p \in DOMAIN projects) =>
                       projects'[p].active_version_id = NULL /\ projects'[p].draft_version_id = NULL
          /\ (call[c].op = "delete_project" /\ call[c].pc \notin {"idle", "done"}) =>
               LET p == call[c].args.project_id
                   vs == {v \in DOMAIN project_versions : project_versions[v].project_id = p}
               IN /\ p \in DOMAIN projects =>
                       projects[p].active_version_id = NULL /\ projects[p].draft_version_id = NULL
                  /\ project_versions' # project_versions =>
                       /\ \A r \in DOMAIN project_files : r.version_id \notin vs
                       /\ DOMAIN project_versions' = DOMAIN project_versions \ vs
                  /\ DOMAIN projects' # DOMAIN projects =>
                       vs = {} /\ DOMAIN projects' = DOMAIN projects \ {p}]_vars

\* between the delete of the versions and the delete of the project: the files and versions the project
\* had are gone and its row, with both pointers cleared, is still there
C29_Witness ==
  /\ call["c1"].op = "delete_project" /\ call["c1"].pc = "deleteProject"
  /\ LET p == call["c1"].args.project_id
     IN /\ p \in DOMAIN projects
        /\ projects[p].active_version_id = NULL /\ projects[p].draft_version_id = NULL
        /\ call["c1"].pre.projects[p].active_version_id # NULL
        /\ call["c1"].pre.projects[p].draft_version_id # NULL
        /\ \E r \in DOMAIN call["c1"].pre.project_files : call["c1"].pre.project_versions[r.version_id].project_id = p
        /\ \A v \in DOMAIN project_versions : project_versions[v].project_id # p

\* C30: in every reachable state a non-null active_version_id or draft_version_id names an existing
\* version of that same project, every file's version_id names an existing version and every version's
\* project_id names an existing project.
C30_ReferencesIntact ==
  /\ \A p \in DOMAIN projects :
       \A v \in {projects[p].active_version_id, projects[p].draft_version_id} \ {NULL} :
          v \in DOMAIN project_versions /\ project_versions[v].project_id = p
  /\ \A r \in DOMAIN project_files : r.version_id \in DOMAIN project_versions
  /\ \A v \in DOMAIN project_versions : project_versions[v].project_id \in DOMAIN projects

\* no handler is between two of its store calls
BetweenOperations == \A c \in Callers : call[c].pc \in {"idle", "done"}

\* C31: in every state between operations, also after an operation one of whose store steps failed, a
\* non-null draft_version_id names a version with is_draft true, a non-null active_version_id names a
\* version with is_draft false, and the two pointers never name the same version.
C31_PointersMatchDraftFlag ==
  BetweenOperations =>
    \A p \in DOMAIN projects :
       LET draft == projects[p].draft_version_id
           active == projects[p].active_version_id
       IN /\ draft # NULL => draft \in DOMAIN project_versions /\ project_versions[draft].is_draft
          /\ active # NULL => active \in DOMAIN project_versions /\ ~project_versions[active].is_draft
          /\ draft # NULL => draft # active

\* version v was published and its files were read for the copy into the new draft
SnapshotCopied(v) ==
  \/ \E p \in DOMAIN projects :
       projects[p].active_version_id = v /\ projects[p].draft_version_id \notin {NULL, v}
  \/ \E k \in Callers :
       call[k].op = "publish" /\ call[k].pc \in {"copy", "pointers"} /\ call[k].draft_version_id = v

\* C32: a write_files or delete_files call that overlaps a publish of the same project changes no file
\* of the published version once its files were copied into the new draft.
C32_SnapshotKeptAfterCopy ==
  [][\A c \in Callers :
       (call[c].op \in {"write_files", "delete_files"} /\ call[c].pc \notin {"idle", "done"}) =>
          \A v \in DOMAIN project_versions :
             SnapshotCopied(v) =>
               [r \in {x \in DOMAIN project_files' : x.version_id = v} |-> project_files'[r]]
                 = [r \in {x \in DOMAIN project_files : x.version_id = v} |-> project_files[r]]]_vars

\* C33: whenever a step changes a project's active_version_id from one version to another, the new
\* active version has a higher version_number than the one that was active before.
C33_ActiveVersionNumberRises ==
  [][\A p \in DOMAIN projects :
       LET was == projects[p].active_version_id
           now == IF p \in DOMAIN projects' THEN projects'[p].active_version_id ELSE NULL
       IN (was # NULL /\ now # NULL /\ now # was /\ was \in DOMAIN project_versions /\ now \in DOMAIN project_versions')
            => project_versions'[now].version_number > project_versions[was].version_number]_vars

\* C34: a project's status is "published" exactly when its active_version_id is non-null, already in
\* the states where no handler is running, and no step takes status from published back to draft.
C34_StatusFollowsActivePointer ==
  [][/\ BetweenOperations' =>
          \A p \in DOMAIN projects' :
             (projects'[p].status = "published") <=> (projects'[p].active_version_id # NULL)
     /\ \A p \in DOMAIN projects \cap DOMAIN projects' :
          projects[p].status = "published" => projects'[p].status = "published"]_vars

\* C35: a request under /app/<slug> is answered 200 only with the content of a file of the version the
\* project's active_version_id names, a request under /preview/<slug> only with one of the version
\* draft_version_id names; when that pointer is null the answer is a 404 without file content (a 500 when
\* the server has no database credentials); and no step of write_files or delete_files changes a file of
\* a version that is live, so what /app/<slug> returns stays until the next publish.
C35_ServingFollowsPointers ==
  [][\A c \in Callers :
       /\ Returns(c, "serveApp", "200") =>
            \E p \in DOMAIN projects :
               LET v == IF call'[c].args.mode = "active" THEN projects[p].active_version_id
                        ELSE projects[p].draft_version_id
               IN /\ projects[p].slug = call'[c].args.slug
                  /\ v # NULL
                  /\ \E r \in DOMAIN project_files :
                       /\ r.version_id = v /\ r.file_path = call'[c].args.filePath
                       /\ r.content = call'[c].payload.content
                       /\ r.content_type = call'[c].payload.content_type
       /\ (Begins(c, "serveApp") /\ \E p \in DOMAIN projects :
              /\ projects[p].slug = call'[c].args.slug
              /\ (IF call'[c].args.mode = "active" THEN projects[p].active_version_id
                  ELSE projects[p].draft_version_id) = NULL)
            => /\ call'[c].pc = "done" /\ call'[c].payload = NULL
               /\ call'[c].result \in {"404 This app hasn't been published yet",
                                       "404 No draft version exists for this project",
                                       "404 Project not found", "500 Server misconfiguration"}
       /\ (call[c].op \in {"write_files", "delete_files"} /\ call[c].pc \notin {"idle", "done"}) =>
            \A p \in DOMAIN projects :
               LET v == projects[p].active_version_id
               IN [r \in {x \in DOMAIN project_files' : x.version_id = v} |-> project_files'[r]]
                    = [r \in {x \in DOMAIN project_files : x.version_id = v} |-> project_files[r]]]_vars

\* the table of the specification, by extension
FixedTable ==
  [html |-> "text/html", css |-> "text/css", js |-> "application/javascript",
   ts |-> "application/typescript", json |-> "application/json", svg |-> "image/svg+xml",
   png |-> "image/png", jpg |-> "image/jpeg", jpeg |-> "image/jpeg", gif |-> "image/gif",
   md |-> "text/markdown", txt |-> "text/plain"]

\* the content type the table assigns to a path: by what follows the last dot, in lower case, and
\* text/plain when the path has no dot or the table has no such extension
TableContentType(filePath) ==
  LET pieces == Split(filePath)
      extension == ToLowerCase(pieces[Len(pieces)])
  IN IF Len(pieces) > 1 /\ extension \in DOMAIN FixedTable THEN FixedTable[extension] ELSE "text/plain"

\* C36: the content type write_files stores for a file is the content_type supplied with it when one is
\* supplied, and otherwise the table's value for the path's extension, compared without regard to case,
\* with text/plain for an unknown or missing extension.
C36_ContentTypeFromTable ==
  \A c \in Callers :
    (call[c].pc = "done" /\ call[c].op = "contentType") =>
      call[c].payload.content_type =
        IF call[c].args.content_type # Undefined THEN call[c].args.content_type
        ELSE TableContentType(call[c].args.file_path)

\* C37: when publish reports success, the new draft version it created contains no files.
C37_NewDraftEmpty ==
  [][\A c \in Callers : Returns(c, "publish", "Published successfully") =>
       SelectFiles(project_files', call'[c].payload.new_draft_version_id) = EmptyBag]_vars

\* C38: a /callback whose state is not stored when it is looked up is rejected with 400 (500 when the
\* lookup itself throws) and completeAuthorization is not called for it; and for each state token that
\* /authorize stored, completeAuthorization is called at most once, whatever callbacks carry that state
\* and however they overlap.
C38_StateConsumedOnce ==
  [][/\ \A c \in Callers :
          (/\ call[c].pc = "idle" /\ call'[c].op = "callback"
           /\ call'[c].args.code # "" /\ call'[c].args.state # NULL
           /\ call'[c].args.state \notin DOMAIN OAUTH_KV)
            => /\ call'[c].pc = "done"
               /\ call'[c].result \in {"400 Invalid or expired state", "500"}
               /\ completed' = completed
     /\ \A state \in StateTokens : completed'[state] <= 1]_vars

====
